---- MODULE Spec2Model ----
(***************************************************************************)
(* The DomainForge DSL front end: DomainForgeInterpreter.interpret runs    *)
(* the parser, the transformer and the two-pass validator over one source  *)
(* text.  The model follows domainforge/core/interpreter.py and            *)
(* domainforge/core/transformer.py; parse trees are Lark trees (a          *)
(* production tag and ordered children, terminals as tokens).              *)
(***************************************************************************)
EXTENDS Integers, Sequences, FiniteSets, TLC

(***************************************************************************)
(* Bounds of the explored inputs.                                          *)
(***************************************************************************)
\* number of context definitions in one source text
MaxContexts == 2
\* number of context-scope definitions in one source text (all contexts)
MaxItems == 3
\* number of entity-body definitions in one source text (all entities)
MaxMembers == 2
\* number of definitions of all scopes (contexts included) in one source text
MaxDefs == 5
\* the same for the texts of a sequence of calls on one interpreter
MaxCallContexts == 1
MaxCallItems == 1
MaxCallMembers == 1
\* nesting depth of a type expression (List<List<String>> has depth 3)
MaxTypeDepth == 3

\* identifiers used for entities, value objects, services, repositories and
\* relationship ends
Names == {"A", "B"}
\* identifiers used for contexts: one that is also used inside contexts, one
\* that is not
ContextNames == {"A", "X"}
\* identifiers used for properties
PropNames == {"p", "q"}

\* Python's None in an Optional[str] field ("<" occurs in no identifier)
None == "<None>"

(***************************************************************************)
(* Lark parse-tree nodes.  hasattr(x, "data") is true of a Tree and false  *)
(* of a Token; str(token) is the matched text.                             *)
(***************************************************************************)
\* Token(type, value); `data` is the matched text
Terminal(type, v) == [token |-> TRUE, type |-> type, data |-> v, children |-> <<>>]
\* an IDENTIFIER token
Token(v) == Terminal("IDENTIFIER", v)
Tree(d, ch) == [token |-> FALSE, type |-> "RULE", data |-> d, children |-> ch]
hasattr_data(x) == ~x.token

RECURSIVE SeqMap(_, _)
\* [Op(x) for x in s]
SeqMap(Op(_), s) ==
    IF s = <<>> THEN <<>> ELSE <<Op(Head(s))>> \o SeqMap(Op, Tail(s))

RECURSIVE SeqFilter(_, _)
\* [x for x in s if Test(x)]
SeqFilter(Test(_), s) ==
    IF s = <<>> THEN <<>>
    ELSE (IF Test(Head(s)) THEN <<Head(s)>> ELSE <<>>) \o SeqFilter(Test, Tail(s))

RECURSIVE Flatten(_)
\* concatenation of a sequence of sequences
Flatten(ss) == IF ss = <<>> THEN <<>> ELSE Head(ss) \o Flatten(Tail(ss))

RECURSIVE Sum(_)
Sum(s) == IF s = <<>> THEN 0 ELSE Head(s) + Sum(Tail(s))

\* number of elements of s that satisfy Test
Count(Test(_), s) == Len(SeqFilter(Test, s))

Range(s) == {s[i] : i \in 1..Len(s)}

RECURSIVE Join(_, _)
\* sep.join(parts)
Join(parts, sep) ==
    IF parts = <<>> THEN ""
    ELSE IF Len(parts) = 1 THEN parts[1]
    ELSE parts[1] \o sep \o Join(Tail(parts), sep)

RECURSIVE repr(_)
\* repr(x): Token('TYPE', 'text') and Tree(Token('RULE', 'rule'), [children])
repr(x) ==
    IF x.token
    THEN "Token('" \o x.type \o "', '" \o x.data \o "')"
    ELSE "Tree(Token('RULE', '" \o x.data \o "'), ["
         \o Join([i \in 1..Len(x.children) |-> repr(x.children[i])], ", ") \o "])"

\* str(x): the text of a token, the repr of a tree
str(x) == IF x.token THEN x.data ELSE repr(x)

(***************************************************************************)
(* An exception that leaves a function, as a value.                        *)
(***************************************************************************)
Raise(type, message) == [raised |-> TRUE, type |-> type, message |-> message]
IsRaised(x) == "raised" \in DOMAIN x

\* the first exception among the results of a loop, if any
FirstRaised(results) == SeqFilter(IsRaised, results)

(***************************************************************************)
(* Source texts, by their syntactic structure.  A text is a sequence of    *)
(* context definitions; `closed` is false when the final "}" is missing.   *)
(***************************************************************************)
SrcProperty(p) == [kind |-> "property", name |-> p]
\* ui: Form (layout: { gap: "1rem" })
SrcUi == [kind |-> "ui", name |-> "Form"]
\* api: GET "/entities"   and   api: POST "/entities" (x: String)
SrcApi(http_method, params) == [kind |-> "api", name |-> http_method, params |-> params]
SrcMembers == {SrcProperty(p) : p \in PropNames} \cup {SrcUi, SrcApi("POST", TRUE)}
SrcEntity(n, ms) == [kind |-> "entity", name |-> n, members |-> ms]
SrcDecl(k, n) == [kind |-> k, name |-> n, members |-> <<>>]
SrcRelationship(s, t) ==
    [kind |-> "relationship", name |-> s, target |-> t, members |-> <<>>]
SrcContext(n, its) == [name |-> n, items |-> its]
SrcText(cs, cl) == [contexts |-> cs, closed |-> cl]

OtherKinds == {"value_object", "service", "repository"}

MemberSeqs(m) == UNION {[1..k -> SrcMembers] : k \in 0..m}

\* the context-scope definitions, entity bodies of at most m definitions
SrcItems(m) ==
    {SrcEntity(n, ms) : n \in Names, ms \in MemberSeqs(m)}
    \cup {SrcDecl(k, n) : k \in OtherKinds, n \in Names}
    \cup {SrcRelationship(s, t) : s \in Names, t \in Names}

SubSeqOf(s, from, n) == [j \in 1..n |-> s[from + j]]

RECURSIVE Cut(_, _, _, _)
\* the contexts named `names` holding `sizes` consecutive items of `its` each
Cut(names, sizes, its, from) ==
    IF names = <<>> THEN <<>>
    ELSE <<SrcContext(Head(names), SubSeqOf(its, from, Head(sizes)))>>
         \o Cut(Tail(names), Tail(sizes), its, from + Head(sizes))

CountMembers(its) == Sum(SeqMap(LAMBDA it : Len(it.members), its))

\* t is one of the well-formed texts of at most c contexts, i context-scope
\* definitions, m entity-body definitions and d definitions in all
IsTextWithin(t, c, i, m, d) ==
    \E nc \in 0..c, k \in 0..i :
      \E names \in [1..nc -> ContextNames], sizes \in [1..nc -> 0..k],
         its \in [1..k -> SrcItems(m)] :
        /\ Sum(sizes) = k
        /\ CountMembers(its) <= m
        /\ nc + k + CountMembers(its) <= d
        /\ t = SrcText(Cut(names, sizes, its, 0), TRUE)

\* t is a text whose last context is not closed
IsUnclosedText(t) == \E n \in ContextNames : t = SrcText(<<SrcContext(n, <<>>)>>, FALSE)

\* the texts a call is explored on
IsText(t) ==
    IsTextWithin(t, MaxContexts, MaxItems, MaxMembers, MaxDefs) \/ IsUnclosedText(t)

\* the texts a sequence of calls is explored on
IsCallText(t) ==
    \/ IsTextWithin(t, MaxCallContexts, MaxCallItems, MaxCallMembers, MaxDefs)
    \/ IsUnclosedText(t)

(***************************************************************************)
(* DomainForgeParser.parse: the Lark LALR parser over the grammar.  The    *)
(* tree keeps the named terminals; anonymous tokens ("@", "{", ":") are    *)
(* filtered out.                                                           *)
(***************************************************************************)
type_definition_tree(t) ==
    Tree("type_definition", <<Tree("simple_type", <<Token(t)>>)>>)

(***************************************************************************)
(* Type expressions: String, Custom<Inner>, List<T>, Dict<K:V>.            *)
(***************************************************************************)
TypeNames == {"String", "Int"}
SrcSimple(n) == [shape |-> "simple", name |-> n]
SrcGeneric(n, inner) == [shape |-> "generic", name |-> n, inner |-> inner]
SrcList(t) == [shape |-> "list", of |-> t]
SrcDict(k, v) == [shape |-> "dict", key |-> k, value |-> v]

RECURSIVE SrcTypes(_)
\* the type expressions of nesting depth at most d
SrcTypes(d) ==
    IF d = 0 THEN {}
    ELSE {SrcSimple(n) : n \in TypeNames}
         \cup {SrcGeneric("Custom", "Inner")}
         \cup {SrcList(t) : t \in SrcTypes(d - 1)}
         \cup {SrcDict(k, v) : k \in SrcTypes(d - 1), v \in SrcTypes(d - 1)}

RECURSIVE parse_type(_)
\* type_definition: simple_type | generic_type | list_type | dict_type
parse_type(ty) ==
    Tree("type_definition",
         <<CASE ty.shape = "simple" -> Tree("simple_type", <<Token(ty.name)>>)
             [] ty.shape = "generic" ->
                  Tree("generic_type", <<Token(ty.name), Token(ty.inner)>>)
             [] ty.shape = "list" -> Tree("list_type", <<parse_type(ty.of)>>)
             [] ty.shape = "dict" ->
                  Tree("dict_type", <<parse_type(ty.key), parse_type(ty.value)>>)>>)

(***************************************************************************)
(* Method definitions:                                                     *)
(*   visibility? IDENTIFIER "(" parameter_list? ")" return_type? body?     *)
(***************************************************************************)
Visibilities == {"public", "private", "protected"}
MethodNames == {"doSomething", "m"}
ParameterNames == {"param", "x"}
MaxParameters == 2
SrcParameter(n, ty) == [name |-> n, type |-> ty]
\* no `: type` clause
SrcNoType == [shape |-> "none"]
\* an absent body, an empty body `{ }`, a body holding a description
SrcBodies ==
    {[clause |-> FALSE, description |-> None], [clause |-> TRUE, description |-> None]}
    \cup {[clause |-> TRUE, description |-> d] : d \in {"", "does something"}}
SrcParameterLists ==
    UNION {[1..n -> {SrcParameter(p, SrcSimple(t)) : p \in ParameterNames, t \in TypeNames}] :
           n \in 0..MaxParameters}
SrcMethods ==
    {[kind |-> "method", visibility |-> v, name |-> n, parameters |-> ps,
      return_type |-> r, body |-> b] :
        v \in Visibilities \cup {None}, n \in MethodNames, ps \in SrcParameterLists,
        r \in {SrcNoType, SrcSimple("Void"), SrcList(SrcSimple("String"))}, b \in SrcBodies}

\* parameter: IDENTIFIER ":" type_definition parameter_default?
parse_parameter(p) == Tree("parameter", <<Token(p.name), parse_type(p.type)>>)

\* "{" description? "}"
parse_body(d, b) ==
    Tree(d, IF b.description = None THEN <<>>
            ELSE <<Tree("description", <<Terminal("STRING", "\"" \o b.description \o "\"")>>)>>)

parse_method(m) ==
    Tree("method_definition",
         (IF m.visibility = None THEN <<>>
          ELSE <<Tree("visibility", <<Terminal("VISIBILITY", m.visibility)>>)>>)
         \o <<Token(m.name)>>
         \o (IF m.parameters = <<>> THEN <<>>
             ELSE <<Tree("parameter_list",
                         [i \in 1..Len(m.parameters) |-> parse_parameter(m.parameters[i])])>>)
         \o (IF m.return_type = SrcNoType THEN <<>>
             ELSE <<Tree("return_type", <<parse_type(m.return_type)>>)>>)
         \o (IF m.body.clause THEN <<parse_body("method_body", m.body)>> ELSE <<>>))

(***************************************************************************)
(* Literals: default_value: INT | FLOAT | STRING | IDENTIFIER | list_value *)
(***************************************************************************)
MaxListDepth == 2
MaxListLen == 2
SrcScalar(type, t) == [lit |-> type, text |-> t]
SrcListValue(items) == [lit |-> "list", items |-> items]
SrcScalars ==
    {SrcScalar("INT", "42"), SrcScalar("FLOAT", "3.5"),
     SrcScalar("STRING", "\"does something\"")}
    \cup {SrcScalar("IDENTIFIER", t) : t \in {"true", "False", "NULL", "active"}}

RECURSIVE SrcLiterals(_)
\* the literals whose lists nest at most d deep
SrcLiterals(d) ==
    IF d = 0 THEN SrcScalars
    ELSE SrcScalars
         \cup {SrcListValue(items) :
                 items \in UNION {[1..n -> SrcLiterals(d - 1)] : n \in 0..MaxListLen}}

RECURSIVE parse_literal(_)
\* list_value: "[" value_list? "]",  value_list: value ("," value)*
parse_literal(l) ==
    IF l.lit = "list"
    THEN Tree("list_value",
              IF l.items = <<>> THEN <<>>
              ELSE <<Tree("value_list",
                          [i \in 1..Len(l.items) |->
                              Tree("value", <<parse_literal(l.items[i])>>)])>>)
    ELSE Terminal(l.lit, l.text)

parse_default(l) == Tree("default_value", <<parse_literal(l)>>)

(***************************************************************************)
(* Nested UI definitions:  ui: Container components: { ui: Form ... }      *)
(***************************************************************************)
MaxUiDepth == 3
MaxUiChildren == 2
LayoutComponents == {"Container"}
BasicComponents == {"Form"}
\* the terminal of the grammar that matches a component word
ComponentTokenType(name) ==
    CASE name \in {"Container", "Grid", "Panel"} -> "LAYOUT_COMPONENT"
      [] name \in {"Navbar", "Menu"} -> "NAV_COMPONENT"
      [] name \in {"Input", "Select"} -> "INPUT_COMPONENT"
      [] name \in {"Chart"} -> "DISPLAY_COMPONENT"
      [] OTHER -> "BASIC_COMPONENT"
SrcUiComponent(c, us) == [kind |-> "ui", name |-> c, components |-> us]

RECURSIVE SrcUiTrees(_)
\* the UI definitions nested at most d deep
SrcUiTrees(d) ==
    IF d = 0 THEN {}
    ELSE {SrcUiComponent(c, us) :
            c \in LayoutComponents \cup BasicComponents,
            us \in UNION {[1..n -> SrcUiTrees(d - 1)] : n \in 0..MaxUiChildren}}

RECURSIVE parse_ui(_)
parse_ui(u) ==
    Tree("ui_definition",
         <<Terminal(ComponentTokenType(u.name), u.name)>>
         \o (IF u.components = <<>> THEN <<>>
             ELSE <<Tree("ui_components",
                         [i \in 1..Len(u.components) |-> parse_ui(u.components[i])])>>))

\* m() with no optional clause
SrcPlainMethod(n) ==
    [kind |-> "method", visibility |-> None, name |-> n, parameters |-> <<>>,
     return_type |-> SrcNoType, body |-> [clause |-> FALSE, description |-> None]]
SrcModule(n, its) == [kind |-> "module", name |-> n, members |-> its]
\* the definitions a module body may hold, bodies empty
SrcModuleItems ==
    {SrcEntity(n, <<>>) : n \in Names}
    \cup {SrcDecl(k, n) : k \in {"value_object", "event", "service", "repository"},
                          n \in Names}
\* value object, event, role, repository and module definitions with at most
\* m definitions in their body
SrcDefinitions(m) ==
    {[kind |-> k, name |-> n, members |-> ms] :
        k \in {"value_object", "event", "role"}, n \in Names,
        ms \in UNION {[1..j -> {SrcProperty(p) : p \in PropNames}] : j \in 0..m}}
    \cup {[kind |-> "repository", name |-> n, members |-> ms] :
            n \in Names,
            ms \in UNION {[1..j -> {SrcPlainMethod(x) : x \in MethodNames}] : j \in 0..m}}
    \cup {SrcModule(n, its) :
            n \in Names, its \in UNION {[1..j -> SrcModuleItems] : j \in 0..m}}

\* ui: Table
SrcUiBare == [kind |-> "ui", name |-> "Table", params |-> FALSE]
\* (x: String)
parse_params(d) ==
    Tree(d, <<Tree("parameter_list",
                   <<Tree("parameter", <<Token("x"), type_definition_tree("String")>>)>>)>>)
\* (layout: { gap: "1rem" }): the parameters of a ui definition are a
\* mixed_parameter_list
parse_ui_params ==
    Tree("ui_params",
         <<Tree("mixed_parameter_list",
                <<Tree("layout_param_def",
                       <<Tree("layout_object",
                              <<Tree("layout_property_list",
                                     <<Tree("layout_property",
                                            <<Token("gap"),
                                              Tree("property_value",
                                                   <<Terminal("STRING", "\"1rem\"")>>)>>)>>)>>)>>)>>)>>)
\* an entity with an optional inheritance clause: #A : B { ... }
MaxEntityChildren == 3
SrcEntityMembers ==
    {SrcProperty(p) : p \in PropNames} \cup {SrcPlainMethod("m")}
    \cup {SrcApi("GET", FALSE), SrcApi("POST", TRUE)} \cup {SrcUi, SrcUiBare}
SrcDerivedEntity(n, parent, ms) ==
    [kind |-> "entity", name |-> n, parent |-> parent, members |-> ms]
SrcEntities ==
    {SrcDerivedEntity(n, parent, ms) :
        n \in Names, parent \in Names \cup {None},
        ms \in UNION {[1..k -> SrcEntityMembers] : k \in 0..MaxEntityChildren}}

parse_member(m) ==
    IF m.kind = "property"
    THEN Tree("property_definition", <<Token(m.name), type_definition_tree("String")>>)
    ELSE IF m.kind = "method" THEN parse_method(m)
    ELSE IF m.kind = "api"
    THEN Tree("api_definition",
              <<Terminal("HTTP_METHOD", m.name), Terminal("STRING", "\"/entities\"")>>
              \o (IF m.params THEN <<parse_params("api_params")>> ELSE <<>>))
    ELSE Tree("ui_definition",
              <<Terminal(ComponentTokenType(m.name), m.name)>>
              \o (IF "params" \in DOMAIN m /\ ~m.params
                  THEN <<>> ELSE <<parse_ui_params>>))

RECURSIVE parse_item(_)
parse_item(it) ==
    CASE it.kind = "entity" ->
           Tree("entity_definition",
                <<Token(it.name)>>
                \o (IF "parent" \in DOMAIN it /\ it.parent # None
                    THEN <<Tree("entity_inheritance", <<Token(it.parent)>>)>>
                    ELSE <<>>)
                \o <<Tree("entity_children", SeqMap(parse_member, it.members))>>)
      [] it.kind = "value_object" ->
           Tree("value_object_definition",
                <<Token(it.name)>> \o SeqMap(parse_member, it.members))
      [] it.kind = "event" ->
           Tree("event_definition", <<Token(it.name)>> \o SeqMap(parse_member, it.members))
      [] it.kind = "role" ->
           Tree("role_definition", <<Token(it.name)>> \o SeqMap(parse_member, it.members))
      [] it.kind = "module" ->
           Tree("module_definition",
                <<Token(it.name), Tree("module_children", SeqMap(parse_item, it.members))>>)
      [] it.kind = "service" ->
           Tree("service_definition",
                <<Token(it.name),
                  Tree("service_children", SeqMap(parse_member, it.members))>>)
      [] it.kind = "repository" ->
           Tree("repository_definition",
                <<Token(it.name)>> \o SeqMap(parse_member, it.members))
      [] it.kind = "relationship" ->
           Tree("relationship_definition",
                <<Tree("source_entity", <<Token(it.name)>>),
                  Terminal("RELATIONSHIP_SYMBOL", "->"),
                  Tree("target_entity", <<Token(it.target)>>)>>)

parse_context(c) ==
    Tree("context_definition",
         <<Token(c.name), Tree("context_children", SeqMap(parse_item, c.items))>>)

\* start: context_definition+ ; a text that ends inside a context, or holds
\* no context, is rejected
parse(t) ==
    IF ~t.closed \/ t.contexts = <<>>
    THEN Raise("UnexpectedInput", <<>>)
    ELSE Tree("start", SeqMap(parse_context, t.contexts))

(***************************************************************************)
(* The model classes (pydantic).  A field declared List[Parameter] accepts *)
(* Parameter instances only: any other element fails validation.           *)
(***************************************************************************)
IsInstance(x, cls) == "class" \in DOMAIN x /\ x.class = cls

\* A value held in a field declared Optional[Any], with its Python type
PyNone == [py |-> "NoneType"]
PyStr(v) == [py |-> "str", value |-> v]
PyInt(v) == [py |-> "int", value |-> v]
PyFloat(v) == [py |-> "float", value |-> v]
PyBool(v) == [py |-> "bool", value |-> v]
PyList(v) == [py |-> "list", value |-> v]
\* a lark Tree or Token object
PyNode(v) == [py |-> IF v.token THEN "Token" ELSE "Tree", value |-> v]

Parameter(name, type, default_value) ==
    [class |-> "Parameter", name |-> name, type |-> type, default_value |-> default_value]

\* parameters: List[Parameter]
Method(name, visibility, parameters, return_type, description) ==
    IF \E i \in 1..Len(parameters) : ~IsInstance(parameters[i], "Parameter")
    THEN Raise("ValidationError", <<"Method", "parameters">>)
    ELSE [class |-> "Method", name |-> name, visibility |-> visibility,
          parameters |-> parameters, return_type |-> return_type,
          description |-> description]

\* parameters: List[Parameter]
ApiEndpoint(http_method, path, parameters, return_type, description) ==
    IF \E i \in 1..Len(parameters) : ~IsInstance(parameters[i], "Parameter")
    THEN Raise("ValidationError", <<"ApiEndpoint", "parameters">>)
    ELSE [class |-> "ApiEndpoint", http_method |-> http_method, path |-> path,
          parameters |-> parameters, return_type |-> return_type,
          description |-> description]

Property(name, type, default_value, constraints) ==
    [class |-> "Property", name |-> name, type |-> type,
     default_value |-> default_value, constraints |-> constraints]

UiComponent(component_type, parameters, description) ==
    IF \E i \in 1..Len(parameters) : ~IsInstance(parameters[i], "Parameter")
    THEN Raise("ValidationError", <<"UiComponent", "parameters">>)
    ELSE [class |-> "UiComponent", component_type |-> component_type,
          parameters |-> parameters, description |-> description]

Relationship(source_entity, target_entity, relationship_type, description) ==
    [class |-> "Relationship", source_entity |-> source_entity,
     target_entity |-> target_entity, relationship_type |-> relationship_type,
     description |-> description]

Entity(name, parent, properties, methods, apis, uis, relationships) ==
    [class |-> "Entity", name |-> name, parent |-> parent,
     properties |-> properties, methods |-> methods, apis |-> apis,
     uis |-> uis, relationships |-> relationships]

ValueObject(name, properties) ==
    [class |-> "ValueObject", name |-> name, properties |-> properties]

Event(name, properties) ==
    [class |-> "Event", name |-> name, properties |-> properties]

Role(name, properties) ==
    [class |-> "Role", name |-> name, properties |-> properties]

Module(name, entities, value_objects, events, services, repositories) ==
    [class |-> "Module", name |-> name, entities |-> entities,
     value_objects |-> value_objects, events |-> events, services |-> services,
     repositories |-> repositories]

Service(name, methods, apis) ==
    [class |-> "Service", name |-> name, methods |-> methods, apis |-> apis]

Repository(name, methods) ==
    [class |-> "Repository", name |-> name, methods |-> methods]

BoundedContext(name, entities, value_objects, events, services, repositories, modules, roles) ==
    [class |-> "BoundedContext", name |-> name, entities |-> entities,
     value_objects |-> value_objects, events |-> events, services |-> services,
     repositories |-> repositories, modules |-> modules, roles |-> roles]

DomainModel(bounded_contexts) ==
    [class |-> "DomainModel", bounded_contexts |-> bounded_contexts]

(***************************************************************************)
(* DomainForgeTransformer.  transform walks the raw tree itself: every     *)
(* method receives the untransformed children of its node.                 *)
(***************************************************************************)
\* the children of node x tagged d
IsTagged(x, d) == hasattr_data(x) /\ x.data = d

\* the texts of the STRING literals of the explored sources, without quotes
StringBodies == {"", "does something", "/entities"}
\* a STRING token: /"[^"]*"/
Quote(body) == "\"" \o body \o "\""
\* s[1:-1], applied to the text of a STRING token
strip_ends(s) == CHOOSE body \in StringBodies : Quote(body) = s

RECURSIVE _extract_type(_)
_extract_type(type_node) ==
    IF type_node.token THEN type_node.data
    ELSE CASE type_node.data = "simple_type" -> str(type_node.children[1])
           [] type_node.data = "generic_type" ->
                str(type_node.children[1]) \o "<"
                \o _extract_type(type_node.children[2]) \o ">"
           [] type_node.data = "list_type" ->
                "List<" \o _extract_type(type_node.children[1]) \o ">"
           [] type_node.data = "dict_type" ->
                "Dict<" \o _extract_type(type_node.children[1]) \o ":"
                \o _extract_type(type_node.children[2]) \o ">"
           [] OTHER ->
                IF type_node.children # <<>>
                THEN _extract_type(type_node.children[1])
                ELSE str(type_node)

\* the Parameter built in the loop of method_definition
method_parameter(param) ==
    Parameter(str(param.children[1]),
              _extract_type(param.children[2].children[1]),
              IF Len(param.children) > 2
              THEN PyNode(param.children[3].children[1])
              ELSE PyNone)

\* str(desc.children[0])[1:-1] of the description in a body clause
body_description(clause) ==
    IF clause.children # <<>>
    THEN strip_ends(str(clause.children[1].children[1]))
    ELSE None

\* method_definition reading its clauses at fixed positions after the name
method_definition_positional(items) ==
    LET has_visibility == Len(items) >= 1 /\ IsTagged(items[1], "visibility")
        visibility == IF has_visibility THEN str(items[1].children[1]) ELSE "public"
        i_name == IF has_visibility THEN 2 ELSE 1
        name == str(items[i_name])
        i_params == i_name + 1
        has_params == i_params <= Len(items) /\ IsTagged(items[i_params], "parameter_list")
        parameters ==
            IF has_params
            THEN SeqMap(method_parameter,
                        SeqFilter(LAMBDA p : IsTagged(p, "parameter"),
                                  items[i_params].children))
            ELSE <<>>
        i_return == i_params + 1
        has_return == i_return <= Len(items) /\ IsTagged(items[i_return], "return_type")
        return_type ==
            IF has_return
            THEN _extract_type(items[i_return].children[1].children[1])
            ELSE None
        i_body == i_return + 1
        has_body == i_body <= Len(items) /\ IsTagged(items[i_body], "method_body")
        description == IF has_body THEN body_description(items[i_body]) ELSE None
    IN  Method(name, visibility, parameters, return_type, description)

method_definition(items) ==
    LET has_visibility == Len(items) >= 1 /\ IsTagged(items[1], "visibility")
        visibility == IF has_visibility THEN str(items[1].children[1]) ELSE "public"
        i_name == IF has_visibility THEN 2 ELSE 1
        name == str(items[i_name])
        i_params == i_name + 1
        has_params == i_params <= Len(items) /\ IsTagged(items[i_params], "parameter_list")
        parameters ==
            IF has_params
            THEN SeqMap(method_parameter,
                        SeqFilter(LAMBDA p : IsTagged(p, "parameter"),
                                  items[i_params].children))
            ELSE <<>>
        i_return == IF has_params THEN i_params + 1 ELSE i_params
        has_return == i_return <= Len(items) /\ IsTagged(items[i_return], "return_type")
        return_type ==
            IF has_return
            THEN _extract_type(items[i_return].children[1].children[1])
            ELSE None
        i_body == IF has_return THEN i_return + 1 ELSE i_return
        has_body == i_body <= Len(items) /\ IsTagged(items[i_body], "method_body")
        description == IF has_body THEN body_description(items[i_body]) ELSE None
    IN  Method(name, visibility, parameters, return_type, description)

api_definition(items) ==
    LET http_method == str(items[1])
        path == strip_ends(str(items[2]))
        has_params == 3 <= Len(items) /\ IsTagged(items[3], "api_params")
        parameters ==
            IF has_params /\ items[3].children # <<>>
               /\ IsTagged(items[3].children[1], "parameter_list")
            THEN items[3].children[1].children
            ELSE <<>>
        i_return == IF has_params THEN 4 ELSE 3
        has_return == i_return <= Len(items) /\ IsTagged(items[i_return], "api_return")
        return_type ==
            IF has_return THEN str(items[i_return].children[1].children[1]) ELSE None
        i_desc == IF has_return THEN i_return + 1 ELSE i_return
        has_desc == i_desc <= Len(items) /\ IsTagged(items[i_desc], "api_desc")
        description == IF has_desc THEN body_description(items[i_desc]) ELSE None
    IN  ApiEndpoint(http_method, path, parameters, return_type, description)

property_definition(items) ==
    LET name == str(items[1])
        type_def == items[2]
        type_str ==
            IF type_def.children # <<>> /\ type_def.children[1].children # <<>>
            THEN str(type_def.children[1].children[1])
            ELSE "Any"
        defaults == SeqFilter(LAMBDA x : IsTagged(x, "property_default"),
                              SubSeqOf(items, 2, Len(items) - 2))
        constraints == SeqFilter(LAMBDA x : IsTagged(x, "property_constraint"),
                                 SubSeqOf(items, 2, Len(items) - 2))
    IN  Property(name, type_str,
                 IF defaults = <<>> THEN PyNone
                 ELSE PyStr(str(defaults[Len(defaults)].children[1])),
                 IF constraints = <<>> THEN <<>>
                 ELSE SeqMap(str, constraints[Len(constraints)].children))

\* the description held by an optional trailing clause tagged d at items[index]
clause_description(items, index, d) ==
    IF index <= Len(items) /\ IsTagged(items[index], d)
    THEN body_description(items[index])
    ELSE None

ui_definition(items) ==
    LET component_type == str(items[1])
        has_params == Len(items) >= 2 /\ IsTagged(items[2], "ui_params")
        parameters ==
            IF has_params /\ items[2].children # <<>>
               /\ IsTagged(items[2].children[1], "parameter_list")
            THEN items[2].children[1].children
            ELSE <<>>
        index == IF has_params THEN 3 ELSE 2
    IN  UiComponent(component_type, parameters,
                    clause_description(items, index, "ui_desc"))

\* one body child of an entity: a model node, an exception, or nothing for a
\* tree with another tag
entity_child(item) ==
    IF hasattr_data(item)
    THEN CASE item.data = "property_definition" -> <<property_definition(item.children)>>
           [] item.data = "ui_definition" -> <<ui_definition(item.children)>>
           [] item.data = "api_definition" -> <<api_definition(item.children)>>
           [] item.data = "method_definition" -> <<method_definition(item.children)>>
           [] OTHER -> <<>>
    ELSE <<item>>

entity_children(items) == Flatten(SeqMap(entity_child, items))

\* entity_definition taking the body at the position after the name
entity_definition_body_second(items) ==
    LET name == str(items[1])
        inherits == Len(items) > 1 /\ IsTagged(items[2], "entity_inheritance")
        parent == IF inherits THEN str(items[2].children[1]) ELSE None
        children_node == IF Len(items) > 1 THEN <<items[2]>> ELSE <<>>
        OfClass(transformed_children, cls) ==
            SeqFilter(LAMBDA ch : IsInstance(ch, cls), transformed_children)
        Built(transformed_children) ==
            IF FirstRaised(transformed_children) # <<>>
            THEN FirstRaised(transformed_children)[1]
            ELSE Entity(name, parent,
                        OfClass(transformed_children, "Property"),
                        OfClass(transformed_children, "Method"),
                        OfClass(transformed_children, "ApiEndpoint"),
                        OfClass(transformed_children, "UiComponent"),
                        OfClass(transformed_children, "Relationship"))
    IN  Built(IF children_node # <<>> /\ IsTagged(children_node[1], "entity_children")
              THEN entity_children(children_node[1].children)
              ELSE <<>>)

entity_definition(items) ==
    LET name == str(items[1])
        inherits == Len(items) > 1 /\ IsTagged(items[2], "entity_inheritance")
        parent == IF inherits THEN str(items[2].children[1]) ELSE None
        children_node ==
            IF Len(items) > 1
            THEN IF inherits
                 THEN (IF Len(items) > 2 THEN <<items[3]>> ELSE <<>>)
                 ELSE <<items[2]>>
            ELSE <<>>
        OfClass(transformed_children, cls) ==
            SeqFilter(LAMBDA ch : IsInstance(ch, cls), transformed_children)
        Built(transformed_children) ==
            IF FirstRaised(transformed_children) # <<>>
            THEN FirstRaised(transformed_children)[1]
            ELSE Entity(name, parent,
                        OfClass(transformed_children, "Property"),
                        OfClass(transformed_children, "Method"),
                        OfClass(transformed_children, "ApiEndpoint"),
                        OfClass(transformed_children, "UiComponent"),
                        OfClass(transformed_children, "Relationship"))
    IN  Built(IF children_node # <<>> /\ IsTagged(children_node[1], "entity_children")
              THEN entity_children(children_node[1].children)
              ELSE <<>>)

\* the raw children of a value object are trees, never Property instances
value_object_definition(items) ==
    ValueObject(str(items[1]),
                SeqFilter(LAMBDA x : IsInstance(x, "Property"),
                          SubSeqOf(items, 1, Len(items) - 1)))

event_definition(items) ==
    Event(str(items[1]),
          SeqFilter(LAMBDA x : IsInstance(x, "Property"),
                    SubSeqOf(items, 1, Len(items) - 1)))

role_definition(items) ==
    Role(str(items[1]),
         SeqFilter(LAMBDA x : IsInstance(x, "Property"),
                   SubSeqOf(items, 1, Len(items) - 1)))

\* a tree with another tag adds nothing, a token is kept
service_children(items) ==
    Flatten(SeqMap(LAMBDA item :
                     IF hasattr_data(item)
                     THEN IF item.data = "method_definition"
                          THEN <<method_definition(item.children)>>
                          ELSE IF item.data = "api_definition"
                          THEN <<api_definition(item.children)>>
                          ELSE <<>>
                     ELSE <<item>>,
                   items))

\* an exception of method_definition or api_definition leaves service_children
\* and service_definition with it
service_definition(items) ==
    LET name == str(items[1])
        Built(transformed_children) ==
            IF FirstRaised(transformed_children) # <<>>
            THEN FirstRaised(transformed_children)[1]
            ELSE Service(name,
                         SeqFilter(LAMBDA ch : IsInstance(ch, "Method"),
                                   transformed_children),
                         SeqFilter(LAMBDA ch : IsInstance(ch, "ApiEndpoint"),
                                   transformed_children))
    IN  Built(IF Len(items) > 1 /\ IsTagged(items[2], "service_children")
              THEN service_children(items[2].children)
              ELSE <<>>)

repository_definition(items) ==
    Repository(str(items[1]),
               SeqFilter(LAMBDA x : IsInstance(x, "Method"),
                         SubSeqOf(items, 1, Len(items) - 1)))

module_definition(items) ==
    LET name == str(items[1])
        contents == IF Len(items) > 1 THEN items[2].children ELSE <<>>
    IN  Module(name,
               SeqFilter(LAMBDA x : IsInstance(x, "Entity"), contents),
               SeqFilter(LAMBDA x : IsInstance(x, "ValueObject"), contents),
               SeqFilter(LAMBDA x : IsInstance(x, "Event"), contents),
               SeqFilter(LAMBDA x : IsInstance(x, "Service"), contents),
               SeqFilter(LAMBDA x : IsInstance(x, "Repository"), contents))

relationship_definition(items) ==
    LET source == str(items[1].children[1])
        target == str(items[3].children[1])
        relationship_type == str(items[2])
    IN  Relationship(source, target, relationship_type,
                     clause_description(items, 4, "relationship_desc"))

\* the index of the first entity named n, 0 if there is none
RECURSIVE FirstNamed(_, _, _)
FirstNamed(entities, n, from) ==
    IF from > Len(entities) THEN 0
    ELSE IF entities[from].name = n THEN from
    ELSE FirstNamed(entities, n, from + 1)

\* the loop has no break: every entity of that name gets the relationship
attach_relationship_no_break(entities, rel) ==
    [i \in 1..Len(entities) |->
        IF entities[i].name = rel.source_entity
        THEN [entities[i] EXCEPT !.relationships = Append(@, rel)]
        ELSE entities[i]]

\* a relationship without a matching entity goes to the first entity
attach_relationship_default_first(entities, rel) ==
    LET i == FirstNamed(entities, rel.source_entity, 1)
        k == IF i = 0 THEN 1 ELSE i
    IN  IF entities = <<>> THEN entities
        ELSE [entities EXCEPT ![k].relationships = Append(@, rel)]

\* the relationship given to the entity it points at
attach_relationship_to_target(entities, rel) ==
    LET i == FirstNamed(entities, rel.target_entity, 1)
    IN  IF i = 0 THEN entities
        ELSE [entities EXCEPT ![i].relationships = Append(@, rel)]

\* the relationship put in front of those the entity already holds
attach_relationship_in_front(entities, rel) ==
    LET i == FirstNamed(entities, rel.source_entity, 1)
    IN  IF i = 0 THEN entities
        ELSE [entities EXCEPT ![i].relationships = <<rel>> \o @]

\* for entity in entities: if entity.name == rel.source_entity: append; break
attach_relationship(entities, rel) ==
    LET i == FirstNamed(entities, rel.source_entity, 1)
    IN  IF i = 0 THEN entities
        ELSE [entities EXCEPT ![i].relationships = Append(@, rel)]

RECURSIVE attach_relationships(_, _)
\* for rel in relationships: ...
attach_relationships(entities, relationships) ==
    IF relationships = <<>> THEN entities
    ELSE attach_relationships(attach_relationship(entities, Head(relationships)),
                              Tail(relationships))

context_definition(ctx) ==
    LET name == str(ctx[1])
        contents ==
            IF Len(ctx) > 1 /\ IsTagged(ctx[2], "context_children")
            THEN ctx[2].children ELSE <<>>
        Tagged(d) == SeqFilter(LAMBDA x : IsTagged(x, d), contents)
        value_objects ==
            SeqMap(LAMBDA x : value_object_definition(x.children),
                   Tagged("value_object_definition"))
        repositories ==
            SeqMap(LAMBDA x : repository_definition(x.children),
                   Tagged("repository_definition"))
        events ==
            SeqMap(LAMBDA x : event_definition(x.children), Tagged("event_definition"))
        modules ==
            SeqMap(LAMBDA x : module_definition(x.children), Tagged("module_definition"))
        roles ==
            SeqMap(LAMBDA x : role_definition(x.children), Tagged("role_definition"))
        relationships ==
            SeqMap(LAMBDA x : relationship_definition(x.children),
                   Tagged("relationship_definition"))
        \* the entity and service definitions are transformed in the order of
        \* the one loop over contents: the first exception among them ends it
        Built(transformed) ==
            IF FirstRaised(transformed) # <<>>
            THEN FirstRaised(transformed)[1]
            ELSE BoundedContext(name,
                                attach_relationships(
                                    SeqFilter(LAMBDA x : IsInstance(x, "Entity"),
                                              transformed),
                                    relationships),
                                value_objects, events,
                                SeqFilter(LAMBDA x : IsInstance(x, "Service"),
                                          transformed),
                                repositories, modules, roles)
    IN  Built(SeqMap(LAMBDA x : IF x.data = "entity_definition"
                                THEN entity_definition(x.children)
                                ELSE service_definition(x.children),
                     SeqFilter(LAMBDA x : IsTagged(x, "entity_definition")
                                          \/ IsTagged(x, "service_definition"),
                               contents)))

\* isinstance(x, Tree): a tree is a record, a list of trees is a sequence
isinstance_Tree(x) == Head(ToString(x)) = "["

\* if not isinstance(items, list): items = [items]
start(items) ==
    LET Built(contexts) ==
            IF FirstRaised(contexts) # <<>>
            THEN FirstRaised(contexts)[1]
            ELSE DomainModel(contexts)
    IN  Built(SeqMap(LAMBDA x : context_definition(x.children),
                     SeqFilter(LAMBDA x : IsTagged(x, "context_definition"),
                               IF isinstance_Tree(items) THEN <<items>> ELSE items)))

transform(t) ==
    IF isinstance_Tree(t)
    THEN start(IF t.data = "start" THEN t.children ELSE <<t>>)
    ELSE start(t)

(***************************************************************************)
(* State of one DomainForgeInterpreter instance between and during calls   *)
(* of interpret.  A local variable keeps its last value until the code     *)
(* binds it again.                                                         *)
(***************************************************************************)
VARIABLES
    pc,             \* position of the running interpret call
    text,           \* argument of the current (or last) call
    tree,           \* local `tree` of interpret
    model,          \* local `model` of interpret
    errors,         \* local `errors` of _validate_model
    defined_names,  \* local `defined_names` of _validate_contexts
    result,         \* what the last call returned or raised
    first,          \* history: text and result of the first completed call
    later           \* history: the current (or last) call is not the first

interpreter_vars == <<pc, text, tree, model, errors, defined_names, result, first, later>>

NoValue == [none |-> TRUE]
EmptyDict == [n \in {} |-> "context"]

(***************************************************************************)
(* Two invocations of interpret that run at the same time.  Each Python    *)
(* call has a frame of its own holding its arguments and locals.           *)
(***************************************************************************)
VARIABLES
    calls,          \* per invocation: position, argument, outcome
    frames,         \* per invocation: the locals tree, model and the loop position
    validations     \* per validation run: the locals errors and defined_names

concurrent_vars == <<calls, frames, validations>>

Invocations == {1, 2}
NoFrame == [tree |-> NoValue, model |-> NoValue, todo |-> <<>>]
NoValidation == [errors |-> <<>>, defined_names |-> EmptyDict]
NoCall == [pc |-> "idle", text |-> NoValue, result |-> NoValue, interleaved |-> FALSE]

ConcurrentIdle ==
    /\ calls = [i \in Invocations |-> NoCall]
    /\ frames = [i \in Invocations |-> NoFrame]
    /\ validations = [i \in Invocations |-> NoValidation]

(***************************************************************************)
(* One production of the grammar handed to its transformer method.         *)
(***************************************************************************)
VARIABLES
    fragment,       \* the piece of source text the production was parsed from
    produced        \* what the transformer method returned for it

transformer_vars == <<fragment, produced>>

TransformerIdle == fragment = NoValue /\ produced = NoValue

(***************************************************************************)
(* State of one PluginManager.                                             *)
(***************************************************************************)
VARIABLES
    plugins,        \* self.plugins: the registry, plugin name -> plugin
    plugin_calls    \* the register_plugin and uninstall calls made so far

plugin_vars == <<plugins, plugin_calls>>

\* PluginManager(): an empty registry
PluginsIdle == plugins = EmptyDict /\ plugin_calls = <<>>

(***************************************************************************)
(* State of the chat controller module.                                    *)
(***************************************************************************)
VARIABLES
    active_sessions,    \* module-level dict: session id -> DomainElicitationSession
    requests,           \* the send_message requests handled so far
    background_tasks    \* the tasks queued by send_message, not yet run

chat_vars == <<active_sessions, requests, background_tasks>>

\* active_sessions = {}
ChatIdle == active_sessions = EmptyDict /\ requests = <<>> /\ background_tasks = <<>>

(***************************************************************************)
(* The UIComponent objects in memory and the calls made on them.           *)
(***************************************************************************)
VARIABLES
    components,     \* the components, by identity
    ui_calls,       \* the calls made from outside, each with its result
    nav_calls       \* the _process_navigation_flow calls made so far

ui_vars == <<components, ui_calls, nav_calls>>

UiIdle == components = <<>> /\ ui_calls = <<>> /\ nav_calls = <<>>

vars == <<interpreter_vars, concurrent_vars, transformer_vars, plugin_vars, chat_vars,
          ui_vars>>
\* what a step of the single interpret call leaves alone
other_than_interpreter ==
    <<concurrent_vars, transformer_vars, plugin_vars, chat_vars, ui_vars>>
\* what a step of the concurrent invocations leaves alone
other_than_concurrent ==
    <<interpreter_vars, transformer_vars, plugin_vars, chat_vars, ui_vars>>
\* what a transformer method leaves alone
other_than_transformer ==
    <<interpreter_vars, concurrent_vars, plugin_vars, chat_vars, ui_vars>>
\* what a call on the plugin manager leaves alone
other_than_plugins ==
    <<interpreter_vars, concurrent_vars, transformer_vars, chat_vars, ui_vars>>
\* what the chat controller leaves alone
other_than_chat ==
    <<interpreter_vars, concurrent_vars, transformer_vars, plugin_vars, ui_vars>>
\* what a call on a UI component leaves alone
other_than_ui ==
    <<interpreter_vars, concurrent_vars, transformer_vars, plugin_vars, chat_vars>>
\* the state outside the interpreter and the transformer is as constructed
ServicesIdle == PluginsIdle /\ ChatIdle /\ UiIdle

(***************************************************************************)
(* DomainForgeInterpreter._validate_model and its two passes.  An error    *)
(* message is the sequence of the parts its f-string joins.                *)
(***************************************************************************)
\* errors: List[str] = []
new_errors == <<>>

\* the registry is created once and shared by every call
new_defined_names_shared == defined_names

\* defined_names: Dict[str, str] = {}
new_defined_names == EmptyDict

Registration(name, kind, message) ==
    [name |-> name, kind |-> kind, message |-> message]

\* the names one context registers, in the order of the loops
context_registrations(context) ==
    <<Registration(context.name, "context",
                   <<"Duplicate bounded context name", context.name>>)>>
    \o SeqMap(LAMBDA e : Registration(e.name, "entity",
                <<"Duplicate entity name in context", context.name, e.name>>),
              context.entities)
    \o SeqMap(LAMBDA v : Registration(v.name, "value_object",
                <<"Duplicate value object name in context", context.name, v.name>>),
              context.value_objects)
    \o SeqMap(LAMBDA s : Registration(s.name, "service",
                <<"Duplicate service name in context", context.name, s.name>>),
              context.services)
    \o SeqMap(LAMBDA r : Registration(r.name, "repository",
                <<"Duplicate repository name in context", context.name, r.name>>),
              context.repositories)

\* a duplicate is reported once per message
register_once(acc, reg) ==
    [errors |-> IF reg.name \in DOMAIN acc.defined_names
                   /\ reg.message \notin Range(acc.errors)
                THEN Append(acc.errors, reg.message) ELSE acc.errors,
     defined_names |-> (reg.name :> reg.kind) @@ acc.defined_names]

\* if name in defined_names: errors.append(...); defined_names[name] = kind
register(acc, reg) ==
    [errors |-> IF reg.name \in DOMAIN acc.defined_names
                THEN Append(acc.errors, reg.message) ELSE acc.errors,
     defined_names |-> (reg.name :> reg.kind) @@ acc.defined_names]

RECURSIVE register_all(_, _)
register_all(acc, regs) ==
    IF regs = <<>> THEN acc
    ELSE register_all(register(acc, Head(regs)), Tail(regs))

RECURSIVE validate_each_context(_, _)
validate_each_context(acc, contexts) ==
    IF contexts = <<>> THEN acc
    ELSE validate_each_context(
            register_all([errors |-> acc.errors, defined_names |-> new_defined_names],
                         context_registrations(Head(contexts))),
            Tail(contexts))

\* the registry is created inside the loop over the contexts
_validate_contexts_per_context(m, errs) ==
    validate_each_context([errors |-> errs, defined_names |-> new_defined_names],
                          m.bounded_contexts)

_validate_contexts(m, errs) ==
    register_all([errors |-> errs, defined_names |-> new_defined_names],
                 Flatten(SeqMap(context_registrations, m.bounded_contexts)))

\* the duplicate-property errors of one entity, in detection order
property_errors(entity) ==
    LET props == entity.properties
        Seen(k) == {props[j].name : j \in 1..(k - 1)}
        Dup(k) == IF props[k].name \in Seen(k)
                  THEN <<<<"Duplicate property name in entity", entity.name,
                           props[k].name>>>>
                  ELSE <<>>
    IN  Flatten([k \in 1..Len(props) |-> Dup(k)])

\* the unknown-target errors of one entity, in detection order
relationship_errors(entity, names) ==
    SeqMap(LAMBDA rel : <<"Unknown target entity in relationship", rel.target_entity>>,
           SeqFilter(LAMBDA rel : rel.target_entity \notin names, entity.relationships))

\* property_names is created once, before the loop over the entities
_validate_entities_shared_property_names(m, errs) ==
    LET all_entities == Flatten(SeqMap(LAMBDA c : c.entities, m.bounded_contexts))
        names == {all_entities[i].name : i \in 1..Len(all_entities)}
        Errors(i) ==
            LET e == all_entities[i]
                props == e.properties
                earlier == Flatten([j \in 1..(i - 1) |-> all_entities[j].properties])
                Seen(k) == Range(SeqMap(LAMBDA p : p.name, earlier))
                           \cup {props[j].name : j \in 1..(k - 1)}
                Dup(k) == IF props[k].name \in Seen(k)
                          THEN <<<<"Duplicate property name in entity", e.name,
                                   props[k].name>>>>
                          ELSE <<>>
            IN  Flatten([k \in 1..Len(props) |-> Dup(k)])
                \o relationship_errors(e, names)
    IN  errs \o Flatten([i \in 1..Len(all_entities) |-> Errors(i)])

\* a relationship target is looked up in the registry of the first pass
_validate_entities_registry_targets(m, errs) ==
    LET all_entities == Flatten(SeqMap(LAMBDA c : c.entities, m.bounded_contexts))
        names == DOMAIN _validate_contexts(m, <<>>).defined_names
    IN  errs \o Flatten(SeqMap(LAMBDA e : property_errors(e) \o relationship_errors(e, names),
                               all_entities))

\* a relationship target is looked up among the entities of its own context
_validate_entities_same_context(m, errs) ==
    LET OfContext(c) ==
            LET names == {c.entities[i].name : i \in 1..Len(c.entities)}
            IN  Flatten(SeqMap(LAMBDA e : property_errors(e) \o relationship_errors(e, names),
                               c.entities))
    IN  errs \o Flatten(SeqMap(OfContext, m.bounded_contexts))

_validate_entities(m, errs) ==
    LET all_entities == Flatten(SeqMap(LAMBDA c : c.entities, m.bounded_contexts))
        names == {all_entities[i].name : i \in 1..Len(all_entities)}
    IN  errs \o Flatten(SeqMap(LAMBDA e : property_errors(e) \o relationship_errors(e, names),
                               all_entities))

\* the collected errors are returned to a caller that ignores them
validation_failure_never(errs) == <<>>

\* only the first collected error is reported
validation_failure_first_only(errs) ==
    IF errs # <<>>
    THEN <<Raise("ValueError", <<<<"Model validation failed:">>, errs[1]>>)>>
    ELSE <<>>

\* if errors: raise ValueError("Model validation failed:\n" + "\n".join(errors))
validation_failure(errs) ==
    IF errs # <<>>
    THEN <<Raise("ValueError", <<<<"Model validation failed:">>>> \o errs)>>
    ELSE <<>>

(***************************************************************************)
(* DomainForgeInterpreter.interpret, step by step.                         *)
(***************************************************************************)
Returned(m) == [kind |-> "model", model |-> m]
Failed(exc) == [kind |-> "error", type |-> exc.type, message |-> exc.message]

\* the outcome of interpret(t), as one function of the text
interpret(t) ==
    LET Validated(transformed, collected) ==
            IF validation_failure(collected) # <<>>
            THEN Failed(validation_failure(collected)[1])
            ELSE Returned(transformed)
        Transformed(transformed) ==
            IF IsRaised(transformed) THEN Failed(transformed)
            ELSE Validated(transformed,
                           _validate_entities(
                               transformed,
                               _validate_contexts(transformed, new_errors).errors))
        Parsed(parsed) ==
            IF IsRaised(parsed) THEN Failed(parsed)
            ELSE Transformed(transform(parsed))
    IN  Parsed(parse(t))

\* parse_domain_model(text): parse and transform only; any exception is
\* re-raised as ParsingError("Error parsing domain model: ...") from it
parse_domain_model(t) ==
    LET ParsingError(e) ==
            [kind |-> "error", type |-> "ParsingError",
             message |-> <<"Error parsing domain model:", e.message>>, cause |-> e.type]
        Transformed(transformed) ==
            IF IsRaised(transformed) THEN ParsingError(transformed)
            ELSE Returned(transformed)
        Parsed(parsed) ==
            IF IsRaised(parsed) THEN ParsingError(parsed)
            ELSE Transformed(transform(parsed))
    IN  Parsed(parse(t))

\* the call ends with outcome r
Complete(r) ==
    /\ result' = r
    /\ pc' = IF r.kind = "model" THEN "returned" ELSE "raised"
    /\ first' = IF first = NoValue THEN [text |-> text, result |-> r] ELSE first

InterpreterIdle ==
    /\ pc = "idle"
    /\ text = NoValue
    /\ tree = NoValue
    /\ model = NoValue
    /\ errors = <<>>
    /\ defined_names = EmptyDict
    /\ result = NoValue
    /\ first = NoValue
    /\ later = FALSE

Init == InterpreterIdle /\ ConcurrentIdle /\ TransformerIdle /\ ServicesIdle

\* interpret(text') is called
Call ==
    /\ pc' = "parse"
    /\ result' = NoValue
    /\ later' = (first # NoValue)
    /\ UNCHANGED <<tree, model, errors, defined_names, first>>
    /\ UNCHANGED other_than_interpreter

\* the first call on a new interpreter
Interpret ==
    /\ pc = "idle"
    /\ IsText(text')
    /\ Call

\* a call on an interpreter that may have been used before
InterpretAgain ==
    /\ pc \in {"idle", "returned", "raised"}
    /\ IsCallText(text')
    /\ Call

\* tree = self.parser.parse(text)
Parse ==
    /\ pc = "parse"
    /\ \E r \in {parse(text)} :
           IF IsRaised(r)
           THEN Complete(Failed(r)) /\ UNCHANGED tree
           ELSE tree' = r /\ pc' = "transform" /\ UNCHANGED <<result, first>>
    /\ UNCHANGED <<text, model, errors, defined_names, later>>
    /\ UNCHANGED other_than_interpreter

\* model = self.transformer.transform(tree)
Transform ==
    /\ pc = "transform"
    /\ \E r \in {transform(tree)} :
           IF IsRaised(r)
           THEN Complete(Failed(r)) /\ UNCHANGED model
           ELSE model' = r /\ pc' = "validate_contexts" /\ UNCHANGED <<result, first>>
    /\ UNCHANGED <<text, tree, errors, defined_names, later>>
    /\ UNCHANGED other_than_interpreter

\* errors = []; self._validate_contexts(model, errors)
ValidateContexts ==
    /\ pc = "validate_contexts"
    /\ LET r == _validate_contexts(model, new_errors)
       IN  errors' = r.errors /\ defined_names' = r.defined_names
    /\ pc' = "validate_entities"
    /\ UNCHANGED <<text, tree, model, result, first, later>>
    /\ UNCHANGED other_than_interpreter

\* a second pass that takes the relationships it has checked off the entities
ValidateEntities_detaching ==
    /\ pc = "validate_entities"
    /\ errors' = _validate_entities(model, errors)
    /\ pc' = "validated"
    /\ model' =
         DomainModel([i \in 1..Len(model.bounded_contexts) |->
            LET c == model.bounded_contexts[i]
            IN  [c EXCEPT !.entities =
                    [j \in 1..Len(c.entities) |->
                        [c.entities[j] EXCEPT !.relationships = <<>>]]]])
    /\ UNCHANGED <<text, tree, defined_names, result, first, later>>
    /\ UNCHANGED other_than_interpreter

\* self._validate_entities(model, errors)
ValidateEntities ==
    /\ pc = "validate_entities"
    /\ errors' = _validate_entities(model, errors)
    /\ pc' = "validated"
    /\ UNCHANGED <<text, tree, model, defined_names, result, first, later>>
    /\ UNCHANGED other_than_interpreter

\* if errors: raise ValueError(...)
RaiseValidationError ==
    /\ pc = "validated"
    /\ validation_failure(errors) # <<>>
    /\ Complete(Failed(validation_failure(errors)[1]))
    /\ UNCHANGED <<text, tree, model, errors, defined_names, later>>
    /\ UNCHANGED other_than_interpreter

\* return model
ReturnModel ==
    /\ pc = "validated"
    /\ validation_failure(errors) = <<>>
    /\ Complete(Returned(model))
    /\ UNCHANGED <<text, tree, model, errors, defined_names, later>>
    /\ UNCHANGED other_than_interpreter

Step ==
    \/ Parse
    \/ Transform
    \/ ValidateContexts
    \/ ValidateEntities
    \/ RaiseValidationError
    \/ ReturnModel

Next == Interpret \/ Step

\* one call of interpret on a new interpreter, over every text of the bounds
Spec == Init /\ [][Next]_vars

NextCalls == InterpretAgain \/ Step

\* any sequence of calls on one interpreter
SpecCalls == Init /\ [][NextCalls]_vars

(***************************************************************************)
(* Two invocations of interpret on different texts, their steps            *)
(* interleaved.  The first pass is taken one registered name at a time.    *)
(***************************************************************************)
\* the texts of IsTextWithin(_, c, i, m, d), as a set
TextsWithin(c, i, m, d) ==
    UNION {UNION {
        {SrcText(Cut(x[1], x[2], x[3], 0), TRUE) :
            x \in {y \in [1..nc -> ContextNames] \X [1..nc -> 0..k] \X [1..k -> SrcItems(m)] :
                      /\ Sum(y[2]) = k
                      /\ CountMembers(y[3]) <= m
                      /\ nc + k + CountMembers(y[3]) <= d}}
        : k \in 0..i} : nc \in 0..c}

\* the texts IsCallText describes
CallTexts ==
    TextsWithin(MaxCallContexts, MaxCallItems, MaxCallMembers, MaxDefs)
    \cup {SrcText(<<SrcContext(n, <<>>)>>, FALSE) : n \in ContextNames}

\* errors and defined_names live on a validator shared by all invocations
validation_of_shared(i) == 1

\* errors and defined_names are locals of the invocation's own validation run
validation_of(i) == i

Other(i) == CHOOSE j \in Invocations : j # i
\* invocation j is inside the loops of the first pass
Running(j) == calls[j].pc = "register"

\* invocation i moves on to position p
Advance(i, p) ==
    calls' = [calls EXCEPT ![i].pc = p,
                           ![i].interleaved = @ \/ Running(Other(i))]

\* invocation i ends with outcome r
CComplete(i, r) ==
    calls' = [calls EXCEPT ![i].pc = IF r.kind = "model" THEN "returned" ELSE "raised",
                           ![i].result = r,
                           ![i].interleaved = @ \/ Running(Other(i))]

\* two threads call interpret, each on a text of its own
InitConcurrent ==
    /\ InterpreterIdle
    /\ ServicesIdle
    /\ \E t1 \in CallTexts, t2 \in CallTexts :
         /\ t1 # t2
         /\ calls = [i \in Invocations |->
                       [NoCall EXCEPT !.pc = "parse", !.text = IF i = 1 THEN t1 ELSE t2]]
    /\ frames = [i \in Invocations |-> NoFrame]
    /\ validations = [i \in Invocations |-> NoValidation]
    /\ TransformerIdle

\* tree = self.parser.parse(text)
CParse(i) ==
    /\ calls[i].pc = "parse"
    /\ LET r == parse(calls[i].text)
       IN  IF IsRaised(r)
           THEN CComplete(i, Failed(r)) /\ UNCHANGED frames
           ELSE frames' = [frames EXCEPT ![i].tree = r] /\ Advance(i, "transform")
    /\ UNCHANGED validations
    /\ UNCHANGED other_than_concurrent

\* model = self.transformer.transform(tree)
CTransform(i) ==
    /\ calls[i].pc = "transform"
    /\ LET r == transform(frames[i].tree)
       IN  IF IsRaised(r)
           THEN CComplete(i, Failed(r)) /\ UNCHANGED frames
           ELSE frames' = [frames EXCEPT ![i].model = r] /\ Advance(i, "validate_contexts")
    /\ UNCHANGED validations
    /\ UNCHANGED other_than_concurrent

\* errors = []; defined_names = {}; the loops of _validate_contexts start
CBeginValidation(i) ==
    /\ calls[i].pc = "validate_contexts"
    /\ validations' = [validations EXCEPT ![validation_of(i)] =
                          [errors |-> new_errors, defined_names |-> new_defined_names]]
    /\ frames' = [frames EXCEPT ![i].todo =
                     Flatten(SeqMap(context_registrations, frames[i].model.bounded_contexts))]
    /\ Advance(i, "register")
    /\ UNCHANGED other_than_concurrent

\* one iteration of a loop of _validate_contexts
CRegister(i) ==
    /\ calls[i].pc = "register"
    /\ frames[i].todo # <<>>
    /\ validations' = [validations EXCEPT ![validation_of(i)] =
                          register(@, Head(frames[i].todo))]
    /\ frames' = [frames EXCEPT ![i].todo = Tail(@)]
    /\ Advance(i, "register")
    /\ UNCHANGED other_than_concurrent

\* self._validate_entities(model, errors)
CValidateEntities(i) ==
    /\ calls[i].pc = "register"
    /\ frames[i].todo = <<>>
    /\ validations' = [validations EXCEPT ![validation_of(i)].errors =
                          _validate_entities(frames[i].model, @)]
    /\ Advance(i, "validated")
    /\ UNCHANGED frames
    /\ UNCHANGED other_than_concurrent

\* if errors: raise ValueError(...); otherwise return model
CFinish(i) ==
    /\ calls[i].pc = "validated"
    /\ LET failure == validation_failure(validations[validation_of(i)].errors)
       IN  IF failure # <<>>
           THEN CComplete(i, Failed(failure[1]))
           ELSE CComplete(i, Returned(frames[i].model))
    /\ UNCHANGED <<frames, validations>>
    /\ UNCHANGED other_than_concurrent

NextConcurrent ==
    \E i \in Invocations :
        \/ CParse(i)
        \/ CTransform(i)
        \/ CBeginValidation(i)
        \/ CRegister(i)
        \/ CValidateEntities(i)
        \/ CFinish(i)

\* two interleaved invocations, over every pair of different texts
SpecConcurrent == InitConcurrent /\ [][NextConcurrent]_vars

(***************************************************************************)
(* The transformer methods that store a type string, each on a definition  *)
(* written with one type expression.                                       *)
(***************************************************************************)
\* the transformer method `by` returned `node`
Produced(by, node) == [by |-> by, node |-> node]

InitTypes ==
    /\ InterpreterIdle
    /\ ServicesIdle
    /\ ConcurrentIdle
    /\ fragment \in {[kind |-> "type", type |-> ty] : ty \in SrcTypes(MaxTypeDepth)}
    /\ produced = NoValue

\* p: T
PropertyOfType ==
    /\ produced = NoValue
    /\ produced' = Produced("property_definition",
                            property_definition(<<Token("p"), parse_type(fragment.type)>>))
    /\ UNCHANGED fragment
    /\ UNCHANGED other_than_transformer

\* m(x: T): T
MethodOfType ==
    /\ produced = NoValue
    /\ produced' = Produced("method_definition",
          method_definition(
            <<Token("m"),
              Tree("parameter_list",
                   <<Tree("parameter", <<Token("x"), parse_type(fragment.type)>>)>>),
              Tree("return_type", <<parse_type(fragment.type)>>)>>))
    /\ UNCHANGED fragment
    /\ UNCHANGED other_than_transformer

\* api: GET "/entities": T
ApiOfType ==
    /\ produced = NoValue
    /\ produced' = Produced("api_definition",
          api_definition(
            <<Terminal("HTTP_METHOD", "GET"), Terminal("STRING", Quote("/entities")),
              Tree("api_return", <<parse_type(fragment.type)>>)>>))
    /\ UNCHANGED fragment
    /\ UNCHANGED other_than_transformer

(***************************************************************************)
(* method_definition on every combination of a method's optional clauses.  *)
(***************************************************************************)
InitMethods ==
    /\ InterpreterIdle
    /\ ServicesIdle
    /\ ConcurrentIdle
    /\ fragment \in SrcMethods
    /\ produced = NoValue

TransformMethod ==
    /\ produced = NoValue
    /\ produced' = Produced("method_definition",
                            method_definition(parse_method(fragment).children))
    /\ UNCHANGED fragment
    /\ UNCHANGED other_than_transformer

NextMethods == TransformMethod

SpecMethods == InitMethods /\ [][NextMethods]_vars

(***************************************************************************)
(* The transformer methods that store a default value, each on a           *)
(* definition written with one literal.                                    *)
(***************************************************************************)
InitDefaults ==
    /\ InterpreterIdle
    /\ ServicesIdle
    /\ ConcurrentIdle
    /\ fragment \in {[kind |-> "default", literal |-> l] : l \in SrcLiterals(MaxListDepth)}
    /\ produced = NoValue

\* p: String = literal
PropertyWithDefault ==
    /\ produced = NoValue
    /\ produced' = Produced("property_definition",
          property_definition(
            <<Token("p"), parse_type(SrcSimple("String")),
              Tree("property_default", <<parse_default(fragment.literal)>>)>>))
    /\ UNCHANGED fragment
    /\ UNCHANGED other_than_transformer

\* m(x: String = literal)
ParameterWithDefault ==
    /\ produced = NoValue
    /\ produced' = Produced("method_definition",
          method_definition(
            <<Token("m"),
              Tree("parameter_list",
                   <<Tree("parameter",
                          <<Token("x"), parse_type(SrcSimple("String")),
                            Tree("parameter_default",
                                 <<parse_default(fragment.literal)>>)>>)>>)>>))
    /\ UNCHANGED fragment
    /\ UNCHANGED other_than_transformer

NextDefaults == PropertyWithDefault \/ ParameterWithDefault

SpecDefaults == InitDefaults /\ [][NextDefaults]_vars

(***************************************************************************)
(* The transformer methods of the definitions that hold members, each on   *)
(* a definition with a body of at most MaxMembers definitions.             *)
(***************************************************************************)
InitMembers ==
    /\ InterpreterIdle
    /\ ServicesIdle
    /\ ConcurrentIdle
    /\ fragment \in SrcDefinitions(MaxMembers)
    /\ produced = NoValue

TransformDefinition(kind, node) ==
    /\ produced = NoValue
    /\ fragment.kind = kind
    /\ produced' = Produced(kind, node)
    /\ UNCHANGED fragment
    /\ UNCHANGED other_than_transformer

TransformValueObject ==
    TransformDefinition("value_object",
                        value_object_definition(parse_item(fragment).children))

TransformEvent ==
    TransformDefinition("event", event_definition(parse_item(fragment).children))

TransformRole ==
    TransformDefinition("role", role_definition(parse_item(fragment).children))

TransformRepository ==
    TransformDefinition("repository",
                        repository_definition(parse_item(fragment).children))

TransformModule ==
    TransformDefinition("module", module_definition(parse_item(fragment).children))

NextMembers ==
    \/ TransformValueObject
    \/ TransformEvent
    \/ TransformRole
    \/ TransformRepository
    \/ TransformModule

SpecMembers == InitMembers /\ [][NextMembers]_vars

(***************************************************************************)
(* ui_definition on UI definitions that hold nested UI definitions.        *)
(***************************************************************************)
InitUi ==
    /\ InterpreterIdle
    /\ ServicesIdle
    /\ ConcurrentIdle
    /\ fragment \in SrcUiTrees(MaxUiDepth)
    /\ produced = NoValue

TransformUi ==
    /\ produced = NoValue
    /\ produced' = Produced("ui_definition", ui_definition(parse_ui(fragment).children))
    /\ UNCHANGED fragment
    /\ UNCHANGED other_than_transformer

NextUi == TransformUi

SpecUi == InitUi /\ [][NextUi]_vars

(***************************************************************************)
(* entity_definition on entities with and without an inheritance clause,   *)
(* their body holding properties, methods, apis and uis.                   *)
(***************************************************************************)
InitEntities ==
    /\ InterpreterIdle
    /\ ServicesIdle
    /\ ConcurrentIdle
    /\ fragment \in SrcEntities
    /\ produced = NoValue

TransformEntity ==
    /\ produced = NoValue
    /\ produced' = Produced("entity_definition",
                            entity_definition(parse_item(fragment).children))
    /\ UNCHANGED fragment
    /\ UNCHANGED other_than_transformer

NextEntities == TransformEntity

SpecEntities == InitEntities /\ [][NextEntities]_vars

(***************************************************************************)
(* context_definition on one context holding definitions of every kind.    *)
(***************************************************************************)
MaxContextChildren == 3
MaxBodyChildren == 2
MaxContextDefs == 4
DeclKinds == {"value_object", "event", "service", "repository", "module", "role"}
SrcBodyMembers ==
    {SrcProperty(p) : p \in PropNames}
    \cup {SrcPlainMethod("m"), SrcUiBare, SrcUi, SrcApi("GET", FALSE), SrcApi("POST", FALSE)}
\* >>A { m()  api: GET "/entities"  api: POST "/entities" (x: String) }
SrcService(n, ms) == [kind |-> "service", name |-> n, members |-> ms]
SrcServiceMembers == {SrcPlainMethod("m"), SrcApi("GET", FALSE), SrcApi("POST", TRUE)}
SrcContextItems ==
    {SrcEntity(n, ms) :
        n \in Names, ms \in UNION {[1..k -> SrcBodyMembers] : k \in 0..MaxBodyChildren}}
    \cup {SrcService(n, ms) :
            n \in Names,
            ms \in UNION {[1..k -> SrcServiceMembers] : k \in 1..MaxBodyChildren}}
    \cup {SrcDecl(k, n) : k \in DeclKinds, n \in Names}
    \cup {SrcRelationship(src, tgt) : src \in Names, tgt \in Names}

\* c is a context of at most MaxContextChildren definitions, MaxContextDefs
\* with those of the entity bodies
IsContext(c) ==
    \E k \in 0..MaxContextChildren :
      \E its \in [1..k -> SrcContextItems] :
        /\ k + CountMembers(its) <= MaxContextDefs
        /\ c = SrcContext("X", its)

InitContexts ==
    /\ InterpreterIdle
    /\ ServicesIdle
    /\ ConcurrentIdle
    /\ IsContext(fragment)
    /\ produced = NoValue

TransformContext ==
    /\ produced = NoValue
    /\ produced' = Produced("context_definition",
                            context_definition(parse_context(fragment).children))
    /\ UNCHANGED fragment
    /\ UNCHANGED other_than_transformer

NextContexts == TransformContext

SpecContexts == InitContexts /\ [][NextContexts]_vars

(***************************************************************************)
(* The transformer methods on a tree that holds, among the children the    *)
(* grammar gives, one node whose tag is not expected at its position.      *)
(***************************************************************************)
MaxSiblings == 2
\* a production no method of the transformer dispatches on, and productions
\* that belong to another position
UnexpectedNodes(position) ==
    {Tree("aggregate_definition", <<Token("A")>>)}
    \cup (IF position = "property_clause"
          THEN {Tree("method_body", <<>>)}
          ELSE IF position = "entity_children"
          THEN {Tree("entity_definition", <<Token("B"), Tree("entity_children", <<>>)>>)}
          ELSE {Tree("property_definition", <<Token("p"), type_definition_tree("String")>>)})
\* the children the grammar allows at the position
Siblings(position) ==
    CASE position = "context_children" ->
           {parse_item(it) : it \in {SrcEntity("A", <<>>), SrcDecl("value_object", "B"),
                                     SrcRelationship("A", "A")}}
      [] position = "entity_children" ->
           {parse_member(m) : m \in {SrcProperty("p"), SrcPlainMethod("m"), SrcUiBare}}
      [] position = "service_children" ->
           {parse_member(m) : m \in {SrcPlainMethod("m"), SrcApi("GET", FALSE)}}
      [] position = "property_clause" ->
           \* = 42  (property_default: "=" default_value)  and  [required]
           \* (property_constraint: "[" constraint+ "]"; the keyword of
           \* constraint: "required" | ... is an anonymous token the
           \* parser drops, so the constraint tree has no children)
           {Tree("property_default", <<parse_default(SrcScalar("INT", "42"))>>),
            Tree("property_constraint", <<Tree("constraint", <<>>)>>)}
Positions == {"context_children", "entity_children", "service_children", "property_clause"}
InsertAt(s, i, x) == SubSeq(s, 1, i) \o <<x>> \o SubSeq(s, i + 1, Len(s))

InitUnexpected ==
    /\ InterpreterIdle
    /\ ServicesIdle
    /\ ConcurrentIdle
    /\ \E position \in Positions, k \in 0..MaxSiblings :
         \E siblings \in [1..k -> Siblings(position)], at \in 0..k,
            node \in UnexpectedNodes(position) :
           fragment = [kind |-> "unexpected", position |-> position, node |-> node,
                       children |-> InsertAt(siblings, at, node)]
    /\ produced = NoValue

TransformWith(position, node) ==
    /\ produced = NoValue
    /\ fragment.position = position
    /\ produced' = Produced(position, node)
    /\ UNCHANGED fragment
    /\ UNCHANGED other_than_transformer

UnexpectedInContext ==
    TransformWith("context_children",
                  context_definition(<<Token("X"),
                                       Tree("context_children", fragment.children)>>))

UnexpectedInEntity ==
    TransformWith("entity_children",
                  entity_definition(<<Token("A"),
                                      Tree("entity_children", fragment.children)>>))

UnexpectedInService ==
    TransformWith("service_children",
                  service_definition(<<Token("A"),
                                       Tree("service_children", fragment.children)>>))

UnexpectedInProperty ==
    TransformWith("property_clause",
                  property_definition(<<Token("p"), type_definition_tree("String")>>
                                      \o fragment.children))

NextUnexpected ==
    \/ UnexpectedInContext
    \/ UnexpectedInEntity
    \/ UnexpectedInService
    \/ UnexpectedInProperty

SpecUnexpected == InitUnexpected /\ [][NextUnexpected]_vars

(***************************************************************************)
(* UIComponent objects and the parser's navigation-flow processing.        *)
(***************************************************************************)
MaxComponents == 2
MaxChildren == 2
MaxRules == 2
\* a to_dict recursion deeper than the number of components has met a
\* component twice, so it repeats without end and stops at Python's
\* recursion limit
RecursionLimit == MaxComponents
ComponentNames == <<"page", "panel", "button", "text">>
NoFlow == [has |-> FALSE, entries |-> <<>>]
\* {"event": "onClick", "target": "HomePage", "params": {"id": "formId"}}
ClickEntry == [event |-> "onClick", target |-> "HomePage", params |-> ("id" :> "formId")]
\* {"event": "onSubmit", "target": "SuccessPage"}
SubmitEntry == [event |-> "onSubmit", target |-> "SuccessPage"]

\* NavigationRule(event, target, params): an object with three attributes
NavigationRule(event, target, params) ==
    [class |-> "NavigationRule", event |-> event, target |-> target, params |-> params]
\* hasattr(rule, "event"): true of a NavigationRule, false of a dict
hasattr_event(rule) == "class" \in DOMAIN rule

\* UIComponent(component_type, name, properties): layout defaults to None,
\* and no method sets it; children and navigation_rules default to empty
\* lists; the class has no navigation_flow, a caller may assign one
UIComponent(name) ==
    [component_type |-> "Panel", name |-> name, properties |-> EmptyDict,
     children |-> <<>>, navigation_flow |-> NoFlow, navigation_rules |-> <<>>]

\* self.children.append(child): the list holds a reference to the child
add_child(comps, self, child) ==
    [comps EXCEPT ![self].children = Append(@, child)]

\* self.navigation_rules.append(NavigationRule(event, target, params or {}));
\* passed holds the arguments of the call, params only when it is given
add_navigation_rule(comps, self, passed) ==
    [comps EXCEPT ![self].navigation_rules =
        Append(@, NavigationRule(passed.event, passed.target,
                                 IF "params" \in DOMAIN passed THEN passed.params
                                 ELSE EmptyDict))]

\* the components reached from those of `from` through at most n children links
RECURSIVE ReachableFrom(_, _, _)
ReachableFrom(comps, from, n) ==
    IF n = 0 THEN from
    ELSE ReachableFrom(comps,
                       from \cup UNION {Range(comps[c].children) : c \in from}, n - 1)

\* to_dict builds "children" before "navigation": an exception of a child
\* leaves first.  The navigation list reads rule.event, rule.target and
\* rule.params, attributes a dict stored by _process_navigation_flow lacks.
RECURSIVE to_dict(_, _, _)
to_dict(comps, self, depth) ==
    IF depth > RecursionLimit THEN Raise("RecursionError", <<>>)
    ELSE LET c == comps[self]
             kids == [i \in 1..Len(c.children) |->
                         to_dict(comps, c.children[i], depth + 1)]
             dicts == SeqFilter(LAMBDA rule : ~hasattr_event(rule), c.navigation_rules)
             navigation ==
                 [i \in 1..Len(c.navigation_rules) |->
                     LET rule == c.navigation_rules[i]
                     IN  [event |-> rule.event, target |-> rule.target]
                         @@ (IF rule.params # EmptyDict
                             THEN [params |-> rule.params] ELSE EmptyDict)]
         IN  IF FirstRaised(kids) # <<>> THEN FirstRaised(kids)[1]
             ELSE IF dicts # <<>> THEN Raise("AttributeError", <<"dict", "event">>)
             ELSE [type |-> c.component_type, name |-> c.name,
                   properties |-> c.properties]
                  @@ (IF c.children # <<>> THEN [children |-> kids] ELSE EmptyDict)
                  @@ (IF c.navigation_rules # <<>>
                      THEN [navigation |-> navigation] ELSE EmptyDict)

UiCall(op, component, argument, outcome) ==
    [op |-> op, component |-> component, argument |-> argument, result |-> outcome]

\* dict.get(key, default)
Get(d, key, default) == IF key \in DOMAIN d THEN d[key] ELSE default

\* _process_navigation_flow adding its rules to those the component has
_process_navigation_flow_extending(component) ==
    IF ~component.navigation_flow.has \/ component.navigation_flow.entries = <<>>
    THEN component
    ELSE [component EXCEPT !.navigation_rules =
            @ \o [i \in 1..Len(component.navigation_flow.entries) |->
                    LET rule == component.navigation_flow.entries[i]
                    IN  [event |-> Get(rule, "event", None),
                         target |-> Get(rule, "target", None),
                         params |-> Get(rule, "params", EmptyDict)]]]

\* the rules stored are dicts with the keys event, target and params
_process_navigation_flow(component) ==
    IF ~component.navigation_flow.has \/ component.navigation_flow.entries = <<>>
    THEN component
    ELSE [component EXCEPT !.navigation_rules =
            [i \in 1..Len(component.navigation_flow.entries) |->
                LET rule == component.navigation_flow.entries[i]
                IN  [event |-> Get(rule, "event", None),
                     target |-> Get(rule, "target", None),
                     params |-> Get(rule, "params", EmptyDict)]]]

(***************************************************************************)
(* add_child, add_navigation_rule, to_dict and _process_navigation_flow    *)
(* called from outside, in any order and any number of times, on           *)
(* components created without children, each with or without a             *)
(* navigation_flow assigned.  ui_calls holds the last call made.  The      *)
(* lists of a component are kept within MaxChildren and MaxRules.          *)
(***************************************************************************)
\* the arguments of add_navigation_rule: with params, and without
RuleArguments ==
    {[event |-> "onClick", target |-> "HomePage", params |-> ("id" :> "formId")],
     [event |-> "onSubmit", target |-> "SuccessPage"]}
AssignedFlows == {NoFlow, [has |-> TRUE, entries |-> <<ClickEntry>>]}

InitUiTree ==
    /\ InterpreterIdle
    /\ ConcurrentIdle
    /\ TransformerIdle
    /\ PluginsIdle
    /\ ChatIdle
    /\ \E flows \in [1..MaxComponents -> AssignedFlows] :
         components = [i \in 1..MaxComponents |->
                          [UIComponent(ComponentNames[i]) EXCEPT
                              !.navigation_flow = flows[i]]]
    /\ ui_calls = <<>>
    /\ nav_calls = <<>>

\* parent.add_child(child), for any two components
AddChild ==
    /\ \E self \in DOMAIN components, child \in DOMAIN components :
         /\ Len(components[self].children) < MaxChildren
         /\ components' = add_child(components, self, child)
         /\ ui_calls' = <<UiCall("add_child", self, child, NoValue)>>
    /\ UNCHANGED nav_calls
    /\ UNCHANGED other_than_ui

\* component.add_navigation_rule(event, target) and (event, target, params)
AddNavigationRule ==
    /\ \E self \in DOMAIN components, passed \in RuleArguments :
         /\ Len(components[self].navigation_rules) < MaxRules
         /\ components' = add_navigation_rule(components, self, passed)
         /\ ui_calls' = <<UiCall("add_navigation_rule", self, passed, NoValue)>>
    /\ UNCHANGED nav_calls
    /\ UNCHANGED other_than_ui

\* parser._process_navigation_flow(component)
ProcessFlowOf ==
    /\ \E self \in DOMAIN components :
         /\ components' =
              [components EXCEPT ![self] = _process_navigation_flow(@)]
         /\ ui_calls' = <<UiCall("_process_navigation_flow", self, self, NoValue)>>
    /\ UNCHANGED nav_calls
    /\ UNCHANGED other_than_ui

\* component.to_dict()
ToDict ==
    /\ \E self \in DOMAIN components :
         ui_calls' = <<UiCall("to_dict", self, self, to_dict(components, self, 1))>>
    /\ UNCHANGED <<components, nav_calls>>
    /\ UNCHANGED other_than_ui

NextUiTree == AddChild \/ AddNavigationRule \/ ProcessFlowOf \/ ToDict

SpecUiTree == InitUiTree /\ [][NextUiTree]_vars

(***************************************************************************)
(* DomainForgeParser._process_navigation_flow and                          *)
(* _process_nested_components on component trees built top-down, each      *)
(* component with or without a navigation_flow attribute.                  *)
(***************************************************************************)
MaxNavComponents == 3
MaxNavCalls == 2
NavigationFlows ==
    {NoFlow} \cup {[has |-> TRUE, entries |-> es] :
                      es \in {<<>>, <<ClickEntry>>, <<ClickEntry, SubmitEntry>>}}
\* the navigation_rules a component has before any processing
InitialRules == {<<>>, <<NavigationRule("onLoad", "FetchData", EmptyDict)>>}

\* the components _process_nested_components(component) hands to
\* _process_navigation_flow, in call order
RECURSIVE nested_calls(_, _)
nested_calls(comps, component) ==
    Flatten([i \in 1..Len(comps[component].children) |->
                LET child == comps[component].children[i]
                IN  <<child>> \o (IF comps[child].children # <<>>
                                  THEN nested_calls(comps, child) ELSE <<>>)])
    \o <<component>>

NavCall(call, component, before, after) ==
    [call |-> call, component |-> component, before |-> before, after |-> after]

\* _process_navigation_flow called on each of `todo`, one after the other
RECURSIVE process_each(_, _, _, _)
process_each(comps, log, call, todo) ==
    IF todo = <<>> THEN [components |-> comps, nav_calls |-> log]
    ELSE LET c == Head(todo)
             after == _process_navigation_flow(comps[c])
         IN  process_each([comps EXCEPT ![c] = after],
                          Append(log, NavCall(call, c, comps[c].navigation_rules,
                                              after.navigation_rules)),
                          call, Tail(todo))

\* the children of component i of a tree given by its parent links
ChildrenIn(parent, i) ==
    LET Rank(c) == Cardinality({d \in DOMAIN parent : parent[d] = i /\ d < c})
        kids == {c \in DOMAIN parent : parent[c] = i}
    IN  [r \in 1..Cardinality(kids) |-> CHOOSE c \in kids : Rank(c) = r - 1]

InitNavigation ==
    /\ InterpreterIdle
    /\ ConcurrentIdle
    /\ TransformerIdle
    /\ PluginsIdle
    /\ ChatIdle
    /\ \E n \in 1..MaxNavComponents :
         \E parent \in [1..n -> 0..(n - 1)], flows \in [1..n -> NavigationFlows],
            rules \in [1..n -> InitialRules] :
           /\ \A i \in 1..n : parent[i] < i /\ (parent[i] = 0 <=> i = 1)
           /\ components =
                [i \in 1..n |->
                    [UIComponent(ComponentNames[i]) EXCEPT
                        !.children = ChildrenIn(parent, i),
                        !.navigation_flow = flows[i],
                        !.navigation_rules = rules[i]]]
    /\ ui_calls = <<>>
    /\ nav_calls = <<>>

\* parser._process_navigation_flow(component)
ProcessNavigationFlow ==
    /\ Len(ui_calls) < MaxNavCalls
    /\ \E c \in DOMAIN components :
         LET done == process_each(components, nav_calls, Len(ui_calls) + 1, <<c>>)
         IN  /\ components' = done.components
             /\ nav_calls' = done.nav_calls
             /\ ui_calls' = Append(ui_calls,
                                   UiCall("_process_navigation_flow", c, c, NoValue))
    /\ UNCHANGED other_than_ui

\* parser._process_nested_components(component)
ProcessNestedComponents ==
    /\ Len(ui_calls) < MaxNavCalls
    /\ \E c \in DOMAIN components :
         LET done == process_each(components, nav_calls, Len(ui_calls) + 1,
                                  nested_calls(components, c))
         IN  /\ components' = done.components
             /\ nav_calls' = done.nav_calls
             /\ ui_calls' = Append(ui_calls,
                                   UiCall("_process_nested_components", c, c, NoValue))
    /\ UNCHANGED other_than_ui

NextNavigation == ProcessNavigationFlow \/ ProcessNestedComponents

SpecNavigation == InitNavigation /\ [][NextNavigation]_vars

(***************************************************************************)
(* The two entry points that take a source text: interpret and             *)
(* parse_domain_model, each called once on a text.                         *)
(***************************************************************************)
MaxSurfaceContexts == 1
MaxSurfaceItems == 2
MaxSurfaceMembers == 2
IsSurfaceText(t) ==
    \/ IsTextWithin(t, MaxSurfaceContexts, MaxSurfaceItems, MaxSurfaceMembers, MaxDefs)
    \/ IsUnclosedText(t)

CallInterpret ==
    /\ produced = NoValue
    /\ IsSurfaceText(fragment')
    /\ produced' = Produced("interpret", interpret(fragment'))
    /\ UNCHANGED other_than_transformer

CallParseDomainModel ==
    /\ produced = NoValue
    /\ IsSurfaceText(fragment')
    /\ produced' = Produced("parse_domain_model", parse_domain_model(fragment'))
    /\ UNCHANGED other_than_transformer

NextSurfaces == CallInterpret \/ CallParseDomainModel

SpecSurfaces == Init /\ [][NextSurfaces]_vars

(***************************************************************************)
(* PluginManager.register_plugin and PluginManager.uninstall, called in    *)
(* any order on one manager.                                               *)
(***************************************************************************)
MaxPluginCalls == 4
PluginNames == {"mock-plugin", "other"}
\* a plugin object: its metadata (none, or holding its name) and whether its
\* cleanup() raises
Plugin(metadata, cleanup_raises) ==
    [metadata |-> metadata, cleanup_raises |-> cleanup_raises]
PluginMetadata(name) == [name |-> name]
PluginObjects ==
    {Plugin(PluginMetadata(n), b) : n \in PluginNames, b \in BOOLEAN}
    \cup {Plugin(NoValue, FALSE)}
\* the names uninstall is called with
UninstallNames == PluginNames \cup {"absent"}

\* the outcome of a call: the registry it leaves and what the caller gets
Outcome(registry, returned, raised) ==
    [plugins |-> registry, returned |-> returned, raised |-> raised]

register_plugin(registry, plugin) ==
    IF plugin.metadata = NoValue
    THEN Outcome(registry, FALSE, TRUE)
    ELSE Outcome([n \in DOMAIN registry \cup {plugin.metadata.name} |->
                     IF n = plugin.metadata.name THEN plugin ELSE registry[n]],
                 FALSE, FALSE)

\* uninstall without the try/except around plugin.cleanup()
uninstall_cleanup_propagates(registry, plugin_name) ==
    IF plugin_name \in DOMAIN registry
    THEN IF registry[plugin_name].cleanup_raises
         THEN Outcome(registry, FALSE, TRUE)
         ELSE Outcome([n \in DOMAIN registry \ {plugin_name} |-> registry[n]],
                      TRUE, FALSE)
    ELSE Outcome(registry, FALSE, FALSE)

\* an exception of plugin.cleanup() is logged and swallowed
uninstall(registry, plugin_name) ==
    IF plugin_name \in DOMAIN registry
    THEN Outcome([n \in DOMAIN registry \ {plugin_name} |-> registry[n]], TRUE, FALSE)
    ELSE Outcome(registry, FALSE, FALSE)

PluginCall(op, argument, before, outcome) ==
    [op |-> op, argument |-> argument, before |-> before, after |-> outcome.plugins,
     returned |-> outcome.returned, raised |-> outcome.raised]

RegisterPlugin ==
    /\ Len(plugin_calls) < MaxPluginCalls
    /\ \E plugin \in PluginObjects :
         LET outcome == register_plugin(plugins, plugin)
         IN  /\ plugins' = outcome.plugins
             /\ plugin_calls' =
                  Append(plugin_calls, PluginCall("register_plugin", plugin, plugins, outcome))
    /\ UNCHANGED other_than_plugins

Uninstall ==
    /\ Len(plugin_calls) < MaxPluginCalls
    /\ \E plugin_name \in UninstallNames :
         LET outcome == uninstall(plugins, plugin_name)
         IN  /\ plugins' = outcome.plugins
             /\ plugin_calls' =
                  Append(plugin_calls, PluginCall("uninstall", plugin_name, plugins, outcome))
    /\ UNCHANGED other_than_plugins

NextPlugins == RegisterPlugin \/ Uninstall

SpecPlugins == Init /\ [][NextPlugins]_vars

(***************************************************************************)
(* The chat controller: send_message and the background task it queues.    *)
(***************************************************************************)
MaxRequests == 2
Contents ==
    {"", "{bad}", "hello", "I want to model an e-commerce domain", "connect them",
     "connect the entities"}
\* the session_id a request carries: none, or an id
SessionIds == {None, "session_1", "session_2", "mine"}
AiResponse == "This is a mock AI response"

\* content.strip() is empty
IsBlank(content) == content = ""
looks_like_json(content) == content = "{bad}"
\* json.loads(content) raises JSONDecodeError
IsMalformedJson(content) == content = "{bad}"
\* any(keyword in user_message.lower() for keyword in [...])
MentionsDomain(content) ==
    content \in {"I want to model an e-commerce domain", "connect the entities"}
MentionsRelationship(content) == content \in {"connect them", "connect the entities"}

\* str(n)
Decimal(n) == CASE n = 1 -> "1" [] n = 2 -> "2" [] n = 3 -> "3" [] n = 4 -> "4"

ChatMessage(role, content) == [role |-> role, content |-> content]

\* DomainElicitationSession(session_id)
DomainElicitationSession(session_id) ==
    [session_id |-> session_id, domain_entities |-> {}, relationships |-> <<>>,
     current_stage |-> "introduction", messages |-> <<>>]

add_message(session, role, content) ==
    [session EXCEPT !.messages = Append(@, ChatMessage(role, content))]

get_domain_model(session) ==
    [entities |-> session.domain_entities, relationships |-> session.relationships]

Stages == {"introduction", "entity_elicitation", "relationship_elicitation"}
_get_system_prompt_for_stage(stage) ==
    IF stage \in Stages THEN "system prompt: " \o stage
    ELSE "system prompt: introduction"

\* every request gets a session of its own
session_id_always_new(message, sessions) ==
    "session_" \o Decimal(Cardinality(DOMAIN sessions) + 1)

\* message.session_id or f"session_{len(active_sessions) + 1}"
session_id_for(message, sessions) ==
    IF message.session_id # None THEN message.session_id
    ELSE "session_" \o Decimal(Cardinality(DOMAIN sessions) + 1)

HTTPException(status_code, detail) == [status_code |-> status_code, detail |-> detail]
ChatResponse(messages, session_id, domain_model, elicitation_stage) ==
    [status_code |-> 200, messages |-> messages, session_id |-> session_id,
     domain_model |-> domain_model, elicitation_stage |-> elicitation_stage]

\* the response of a request that waits at `await ai_client.generate_response`
Awaiting == [status_code |-> 0]
IsAwaiting(r) == r.response = Awaiting

\* one request, in the order of arrival: what it carried, the session ids
\* before and after the session lookup, the messages the session held
\* before, whether another request of the session was waiting for the AI
\* client then, the conversation given to the AI client (if any) and the
\* response
Handled(message, session_id, sessions, messages_before, conversation, response) ==
    [message |-> message, session_id |-> session_id,
     sessions_before |-> DOMAIN active_sessions, sessions_after |-> DOMAIN sessions,
     messages_before |-> messages_before,
     overlapped |-> \E j \in 1..Len(requests) :
                       IsAwaiting(requests[j]) /\ requests[j].session_id = session_id,
     conversation |-> conversation, response |-> response]

RemoveAt(s, i) == SubSeq(s, 1, i - 1) \o SubSeq(s, i + 1, Len(s))

MaxRelationships == 1
RelationshipTargets == {"Customer"}
\* the sessions that hold a relationship
WithRelationships ==
    {s \in DOMAIN active_sessions : active_sessions[s].relationships # <<>>}

\* send_message(message) up to the await of the AI client: the checks of the
\* content, the session lookup, the user message, the conversation; at most
\* bound requests, their contents and session ids drawn from the two sets
SendMessageFrom(contents, session_ids, bound) ==
    /\ Len(requests) < bound
    /\ \E content \in contents, sid \in session_ids :
         LET message == [content |-> content, session_id |-> sid]
             session_id == session_id_for(message, active_sessions)
             created ==
                 IF session_id \in DOMAIN active_sessions THEN active_sessions
                 ELSE [s \in DOMAIN active_sessions \cup {session_id} |->
                          IF s = session_id THEN DomainElicitationSession(session_id)
                          ELSE active_sessions[s]]
             session == created[session_id]
             system_message == _get_system_prompt_for_stage(session.current_stage)
             asked == add_message(session, "user", content)
             conversation == <<ChatMessage("system", system_message)>> \o asked.messages
         IN  IF IsBlank(content)
             THEN /\ requests' = Append(requests,
                       Handled(message, None, active_sessions, <<>>, <<>>,
                               HTTPException(400, "Empty message content is not allowed")))
                  /\ UNCHANGED active_sessions
             ELSE IF looks_like_json(content) /\ IsMalformedJson(content)
             THEN /\ requests' = Append(requests,
                       Handled(message, None, active_sessions, <<>>, <<>>,
                               HTTPException(422, "Malformed JSON in message content")))
                  /\ UNCHANGED active_sessions
             ELSE /\ active_sessions' = [created EXCEPT ![session_id] = asked]
                  /\ requests' = Append(requests,
                       Handled(message, session_id, created, session.messages,
                               conversation, Awaiting))
    /\ UNCHANGED background_tasks
    /\ UNCHANGED other_than_chat

SendMessage == SendMessageFrom(Contents, SessionIds, MaxRequests)

\* send_message from the await on: the AI client answers, or raises an
\* exception e whose str(e) becomes the detail of the 500 response
GenerateResponseReturns ==
    /\ \E i \in 1..Len(requests), ai_ok \in BOOLEAN :
         /\ IsAwaiting(requests[i])
         /\ LET session_id == requests[i].session_id
                answered == add_message(active_sessions[session_id], "assistant",
                                        AiResponse)
            IN  IF ~ai_ok
                THEN /\ requests' =
                          [requests EXCEPT ![i].response =
                              HTTPException(500, "AI client error")]
                     /\ UNCHANGED <<active_sessions, background_tasks>>
                ELSE /\ active_sessions' =
                          [active_sessions EXCEPT ![session_id] = answered]
                     /\ background_tasks' =
                          Append(background_tasks,
                                 [session_id |-> session_id,
                                  user_message |-> requests[i].message.content,
                                  ai_response |-> AiResponse, at |-> "queued"])
                     /\ requests' =
                          [requests EXCEPT ![i].response =
                              ChatResponse(<<AiResponse>>, session_id,
                                           get_domain_model(answered),
                                           answered.current_stage)]
    /\ UNCHANGED other_than_chat

\* the two keyword checks as independent ifs: the second sees the stage the
\* first has just set
ProcessMessage_falling_through ==
    /\ \E i \in 1..Len(background_tasks) :
         /\ background_tasks[i].at = "queued"
         /\ LET task == background_tasks[i]
                session == active_sessions[task.session_id]
                after_first ==
                    IF session.current_stage = "introduction"
                       /\ MentionsDomain(task.user_message)
                    THEN "entity_elicitation"
                    ELSE session.current_stage
                current_stage ==
                    IF after_first = "entity_elicitation"
                       /\ MentionsRelationship(task.user_message)
                    THEN "relationship_elicitation"
                    ELSE after_first
            IN  /\ active_sessions' =
                     [active_sessions EXCEPT
                         ![task.session_id].current_stage = current_stage]
                /\ background_tasks' =
                     IF current_stage \in {"entity_elicitation", "relationship_elicitation"}
                     THEN [background_tasks EXCEPT ![i].at = "extracting"]
                     ELSE RemoveAt(background_tasks, i)
    /\ UNCHANGED requests
    /\ UNCHANGED other_than_chat

\* _process_message_for_domain_model, started after the response of its
\* request was sent, up to the await of the extraction call; the tasks of
\* different requests are separate coroutines
ProcessMessage ==
    /\ \E i \in 1..Len(background_tasks) :
         /\ background_tasks[i].at = "queued"
         /\ LET task == background_tasks[i]
                session == active_sessions[task.session_id]
                current_stage ==
                    IF session.current_stage = "introduction"
                       /\ MentionsDomain(task.user_message)
                    THEN "entity_elicitation"
                    ELSE IF session.current_stage = "entity_elicitation"
                            /\ MentionsRelationship(task.user_message)
                    THEN "relationship_elicitation"
                    ELSE session.current_stage
            IN  /\ active_sessions' =
                     [active_sessions EXCEPT
                         ![task.session_id].current_stage = current_stage]
                /\ background_tasks' =
                     IF current_stage \in {"entity_elicitation", "relationship_elicitation"}
                     THEN [background_tasks EXCEPT ![i].at = "extracting"]
                     ELSE RemoveAt(background_tasks, i)
    /\ UNCHANGED requests
    /\ UNCHANGED other_than_chat

\* _process_message_for_domain_model from the await on: the extraction call
\* yields an entity line, or nothing, or raises (which is passed over)
ExtractionReturns ==
    /\ \E i \in 1..Len(background_tasks), extracted \in SUBSET {"Order"} :
         /\ background_tasks[i].at = "extracting"
         /\ active_sessions' =
              [active_sessions EXCEPT
                  ![background_tasks[i].session_id].domain_entities = @ \cup extracted]
         /\ background_tasks' = RemoveAt(background_tasks, i)
    /\ UNCHANGED requests
    /\ UNCHANGED other_than_chat

add_relationship(session, source, target, relationship_type) ==
    [session EXCEPT !.relationships =
        Append(@, [source |-> source, target |-> target, type |-> relationship_type])]

\* session.add_relationship(source, target, relationship_type), called by
\* whoever holds the session
AddRelationship ==
    /\ \E s \in DOMAIN active_sessions, target \in RelationshipTargets :
         /\ Cardinality(WithRelationships) < MaxRelationships
         /\ active_sessions' =
              [active_sessions EXCEPT ![s] = add_relationship(@, "Order", target, "has")]
    /\ UNCHANGED <<requests, background_tasks>>
    /\ UNCHANGED other_than_chat

NextChat ==
    \/ SendMessage
    \/ GenerateResponseReturns
    \/ ProcessMessage
    \/ ExtractionReturns
    \/ AddRelationship

SpecChat == Init /\ [][NextChat]_vars

\* longer conversations in fewer sessions: the messages that matter to the
\* elicitation stage, sent to a session of the server's or to session_1
MaxStageRequests == 3
StageContents ==
    {"hello", "I want to model an e-commerce domain", "connect them",
     "connect the entities"}
StageSessionIds == {None, "session_1"}
SendStageMessage == SendMessageFrom(StageContents, StageSessionIds, MaxStageRequests)

NextStages ==
    \/ SendStageMessage
    \/ GenerateResponseReturns
    \/ ProcessMessage
    \/ ExtractionReturns
    \/ AddRelationship

SpecStages == Init /\ [][NextStages]_vars

NextTypes == PropertyOfType \/ MethodOfType \/ ApiOfType

\* every type expression of the bound, stored by each of the three methods
SpecTypes == InitTypes /\ [][NextTypes]_vars

(***************************************************************************)
(* What a source text declares, read off its syntax.                       *)
(***************************************************************************)
TextItems(t) == Flatten(SeqMap(LAMBDA c : c.items, t.contexts))
IsEntityItem(it) == it.kind = "entity"
IsRelationshipItem(it) == it.kind = "relationship"
\* the definitions whose names the first pass registers
IsRegisteredItem(it) == it.kind \in {"entity"} \cup OtherKinds
EntityNames(its) == {it.name : it \in {x \in Range(its) : IsEntityItem(x)}}
\* the relationship definitions of context c that name an entity of c as source
IsAttached(c, it) == IsRelationshipItem(it) /\ it.name \in EntityNames(c.items)
\* an api definition with a parameter list
HasApiParameters(t) ==
    \E it \in Range(TextItems(t)) :
        \E m \in Range(it.members) : m.kind = "api" /\ m.params
AllNames == Names \cup ContextNames

Completed == pc \in {"returned", "raised"}
ValidationFailed == pc = "raised" /\ result.type = "ValueError"
\* the call got as far as validation
Validated == pc = "validated" \/ pc = "returned" \/ ValidationFailed
Occurrences(msg, s) == Count(LAMBDA x : x = msg, s)
IsUnknownTarget(msg) == msg[1] = "Unknown target entity in relationship"
IsDuplicateProperty(msg) == msg[1] = "Duplicate property name in entity"
IsSecondPass(msg) == IsUnknownTarget(msg) \/ IsDuplicateProperty(msg)

(***************************************************************************)
(* C1  interpret returns a model only when parse, transformation and       *)
(* validation all succeed, and then exactly the transformer's model; when  *)
(* any of them fails it raises and hands out no model, and no model is     *)
(* handed out before the call has completed.                               *)
(***************************************************************************)
C1_ModelOnlyWhenAllSucceed ==
    /\ pc = "returned" =>
          /\ result = Returned(model)
          /\ errors = <<>>
          /\ ~IsRaised(parse(text))
          /\ model = transform(parse(text))
    /\ pc = "raised" =>
          /\ result.kind = "error" /\ "model" \notin DOMAIN result
          /\ \/ IsRaised(parse(text)) /\ result.type = "UnexpectedInput"
             \/ /\ ~IsRaised(parse(text)) /\ IsRaised(transform(parse(text)))
                /\ result.type = "ValidationError"
             \/ /\ ~IsRaised(parse(text)) /\ model = transform(parse(text))
                /\ errors # <<>> /\ result.type = "ValueError"
    /\ ~Completed => result = NoValue

\* validation failed on a model the transformer had built: it is not returned
C1_Witness ==
    /\ ValidationFailed
    /\ model.bounded_contexts # <<>>
    /\ model.bounded_contexts[1].entities # <<>>

(***************************************************************************)
(* C2  The ValueError of a failed validation is raised after both passes   *)
(* and its message holds every collected message: the header, then the     *)
(* first-pass messages, then the second-pass messages, as many of each as  *)
(* the text has duplicates and unknown targets.                            *)
(***************************************************************************)
\* number of first-pass errors of text t: registrations beyond the first of a name
ExpectedFirstPass(t) ==
    Sum([i \in 1..Len(t.contexts) |-> 1 + Count(IsRegisteredItem, t.contexts[i].items)])
    - Cardinality({c.name : c \in Range(t.contexts)}
                  \cup {it.name : it \in {x \in Range(TextItems(t)) : IsRegisteredItem(x)}})

\* number of duplicate-property errors of entity definition it
ExpectedDuplicateProperties(it) ==
    Sum(SeqMap(LAMBDA m : IF m.kind = "property" THEN 1 ELSE 0, it.members))
    - Cardinality({m.name : m \in {x \in Range(it.members) : x.kind = "property"}})

\* number of unknown-target errors of text t
ExpectedUnknownTargets(t) ==
    Sum([i \in 1..Len(t.contexts) |->
           Count(LAMBDA it : IsAttached(t.contexts[i], it)
                             /\ it.target \notin EntityNames(TextItems(t)),
                 t.contexts[i].items)])

ExpectedSecondPass(t) ==
    Sum(SeqMap(LAMBDA it : IF IsEntityItem(it) THEN ExpectedDuplicateProperties(it) ELSE 0,
               TextItems(t)))
    + ExpectedUnknownTargets(t)

C2_AllErrorsReportedTogether ==
    ValidationFailed =>
        LET lines == result.message
            k == ExpectedFirstPass(text)
        IN  /\ lines = <<<<"Model validation failed:">>>> \o errors
            /\ Len(errors) = k + ExpectedSecondPass(text)
            /\ \A i \in 1..Len(errors) : IsSecondPass(errors[i]) <=> i > k
            /\ DOMAIN defined_names =
                 {c.name : c \in Range(text.contexts)}
                 \cup {it.name : it \in {x \in Range(TextItems(text)) : IsRegisteredItem(x)}}

\* a failure with errors of both passes, three in all
C2_Witness ==
    /\ ValidationFailed
    /\ Len(errors) >= 3
    /\ ~IsSecondPass(errors[1])
    /\ \E i \in 1..Len(errors) : IsDuplicateProperty(errors[i])
    /\ \E i \in 1..Len(errors) : IsUnknownTarget(errors[i])

(***************************************************************************)
(* C3  N >= 2 entities sharing one name in a context.                      *)
(***************************************************************************)
DuplicateEntity(c, n) == <<"Duplicate entity name in context", c, n>>
NumEntities(c, n) == Count(LAMBDA it : IsEntityItem(it) /\ it.name = n, c.items)

\* n is registered before the entities of the i-th context of t are
RegisteredBefore(t, i, n) ==
    \/ t.contexts[i].name = n
    \/ \E j \in 1..(i - 1) :
         \/ t.contexts[j].name = n
         \/ \E it \in Range(t.contexts[j].items) : IsRegisteredItem(it) /\ it.name = n

\* number of "Duplicate entity name" errors the i-th context of t adds for n
EntityYield(t, i, n) ==
    LET N == NumEntities(t.contexts[i], n)
    IN  IF N = 0 THEN 0 ELSE IF RegisteredBefore(t, i, n) THEN N ELSE N - 1

\* C3 as claimed: a context (the only one of its name) with N >= 2 entities
\* named n has exactly N-1 "Duplicate entity name" errors for n.
C3_Original ==
    pc = "validate_entities" =>
        \A i \in 1..Len(text.contexts), n \in Names :
            LET c == text.contexts[i]
            IN  (/\ NumEntities(c, n) >= 2
                 /\ \A j \in 1..Len(text.contexts) : text.contexts[j].name = c.name => j = i)
                => Occurrences(DuplicateEntity(c.name, n), errors) = NumEntities(c, n) - 1

\* C3  (amended) A context with N >= 2 entities named n adds N-1 errors
\* "Duplicate entity name in context <context>: n" when n is not registered
\* before its entities are, and N when it is (n is the context's own name or a
\* name declared in an earlier context); the errors found for a context name
\* and n are those of all contexts of that name.
C3_DuplicateEntityCount ==
    pc = "validate_entities" =>
        \A c \in ContextNames, n \in Names :
            Occurrences(DuplicateEntity(c, n), errors) =
                Sum([i \in 1..Len(text.contexts) |->
                       IF text.contexts[i].name = c THEN EntityYield(text, i, n) ELSE 0])

\* three entities of one name that is new: two errors
C3_Witness ==
    /\ pc = "validate_entities"
    /\ \E i \in 1..Len(text.contexts), n \in Names :
         /\ NumEntities(text.contexts[i], n) = 3
         /\ ~RegisteredBefore(text, i, n)
         /\ Occurrences(DuplicateEntity(text.contexts[i].name, n), errors) = 2

(***************************************************************************)
(* C4  One registry for all contexts and kinds: after the first pass, the  *)
(* errors about a name are one fewer than the declarations (contexts,      *)
(* entities, value objects, services, repositories) of that name, so the   *)
(* errors number the declarations minus the distinct names.                *)
(***************************************************************************)
NumRegistrations(t, n) ==
    Count(LAMBDA c : c.name = n, t.contexts)
    + Count(LAMBDA it : IsRegisteredItem(it) /\ it.name = n, TextItems(t))

C4_OneErrorPerRepeatedName ==
    pc = "validate_entities" =>
        /\ \A n \in AllNames :
             Count(LAMBDA msg : msg[Len(msg)] = n, errors) =
                 IF NumRegistrations(text, n) = 0 THEN 0
                 ELSE NumRegistrations(text, n) - 1
        /\ Len(errors) = ExpectedFirstPass(text)

\* a name declared in two contexts, by declarations of two kinds
C4_Witness ==
    /\ pc = "validate_entities"
    /\ Len(text.contexts) = 2
    /\ \E n \in Names :
         /\ \E it \in Range(text.contexts[1].items) : it.kind = "value_object" /\ it.name = n
         /\ \E it \in Range(text.contexts[2].items) : it.kind = "service" /\ it.name = n
         /\ NumRegistrations(text, n) = 2
         /\ errors = <<<<"Duplicate service name in context", text.contexts[2].name, n>>>>

(***************************************************************************)
(* C5  After the second pass, the errors "Duplicate property name in       *)
(* entity e: p" are one per property p of an entity e that repeats an      *)
(* earlier property of the same entity; a property name used in two        *)
(* entities adds none.                                                     *)
(***************************************************************************)
DuplicateProperty(e, p) == <<"Duplicate property name in entity", e, p>>
NumProperties(it, p) == Count(LAMBDA m : m.kind = "property" /\ m.name = p, it.members)

C5_DuplicatePropertyCount ==
    pc = "validated" =>
        \A e \in Names, p \in PropNames :
            Occurrences(DuplicateProperty(e, p), errors) =
                Sum(SeqMap(LAMBDA it :
                             IF IsEntityItem(it) /\ it.name = e /\ NumProperties(it, p) > 0
                             THEN NumProperties(it, p) - 1 ELSE 0,
                           TextItems(text)))

\* two entities with the same property, and no duplicate-property error
C5_Witness ==
    /\ pc = "validated"
    /\ \E p \in PropNames :
         /\ Count(LAMBDA it : IsEntityItem(it) /\ NumProperties(it, p) = 1,
                  TextItems(text)) = 2
    /\ \A i \in 1..Len(errors) : ~IsDuplicateProperty(errors[i])

(***************************************************************************)
(* C6  Relationships whose target names no entity of the text.             *)
(***************************************************************************)
UnknownTarget(n) == <<"Unknown target entity in relationship", n>>
ReachedValidation ==
    Completed /\ (result.kind = "error" => result.type = "ValueError")
FailsNaming(n) ==
    /\ ValidationFailed
    /\ UnknownTarget(n) \in Range(result.message)

\* C6 as claimed: every relationship definition whose target names no entity
\* makes the call fail with the unknown-target error.
C6_Original ==
    ReachedValidation =>
        \A it \in Range(TextItems(text)) :
            (IsRelationshipItem(it) /\ it.target \notin EntityNames(TextItems(text)))
            => FailsNaming(it.target)

\* C6  (amended) A relationship whose source names an entity of its own
\* context and whose target names no entity of any context makes interpret
\* fail: no model is returned, and when the failure is the validation error
\* its message holds "Unknown target entity in relationship: <target>", also
\* when the target names a context, value object, service or repository.
C6_UnknownTargetFails ==
    Completed =>
        \A i \in 1..Len(text.contexts) :
            \A it \in Range(text.contexts[i].items) :
                (IsAttached(text.contexts[i], it)
                 /\ it.target \notin EntityNames(TextItems(text)))
                => /\ pc = "raised"
                   /\ result.type = "ValueError"
                        => UnknownTarget(it.target) \in Range(result.message)

\* the target is the name of the context and of a value object, of no entity
C6_Witness ==
    /\ ValidationFailed
    /\ \E i \in 1..Len(text.contexts) :
         \E it \in Range(text.contexts[i].items) :
            /\ IsAttached(text.contexts[i], it)
            /\ it.target = text.contexts[i].name
            /\ it.target \notin EntityNames(TextItems(text))
            /\ \E vo \in Range(text.contexts[i].items) :
                 vo.kind = "value_object" /\ vo.name = it.target
            /\ UnknownTarget(it.target) \in Range(result.message)

(***************************************************************************)
(* C7  No unknown-target error names an entity declared in the text, in    *)
(* whatever context and before or after the relationship.                  *)
(***************************************************************************)
C7_DeclaredTargetNoError ==
    Validated =>
        \A i \in 1..Len(errors) :
            IsUnknownTarget(errors[i]) => errors[i][2] \notin EntityNames(TextItems(text))

\* a relationship of the first context, defined before its source entity, to
\* an entity of the second context: validated without unknown-target error
C7_Witness ==
    /\ pc = "validated"
    /\ Len(text.contexts) = 2
    /\ \E j, k \in 1..Len(text.contexts[1].items) :
         LET r == text.contexts[1].items[j]
             e == text.contexts[1].items[k]
         IN  /\ j < k /\ IsRelationshipItem(r) /\ IsEntityItem(e) /\ e.name = r.name
             /\ r.target \notin EntityNames(text.contexts[1].items)
             /\ r.target \in EntityNames(text.contexts[2].items)
    /\ \A i \in 1..Len(errors) : ~IsUnknownTarget(errors[i])

(***************************************************************************)
(* C8  In the transformed model, the entities of a context are those of    *)
(* the text in order, and each holds the relationship definitions of its   *)
(* context whose source is its name, in order, if it is the first entity   *)
(* of that name, and none otherwise.                                       *)
(***************************************************************************)
RelationshipOf(it) == Relationship(it.name, it.target, "->", None)

ExpectedRelationships(c, j) ==
    LET ents == SeqFilter(IsEntityItem, c.items)
    IN  IF \E k \in 1..(j - 1) : ents[k].name = ents[j].name
        THEN <<>>
        ELSE SeqMap(RelationshipOf,
                    SeqFilter(LAMBDA it : IsRelationshipItem(it) /\ it.name = ents[j].name,
                              c.items))

C8_FirstMatchingEntityOwns ==
    pc = "validate_contexts" =>
        /\ Len(model.bounded_contexts) = Len(text.contexts)
        /\ \A i \in 1..Len(text.contexts) :
             LET c == text.contexts[i]
                 entities == model.bounded_contexts[i].entities
             IN  /\ Len(entities) = Count(IsEntityItem, c.items)
                 /\ \A j \in 1..Len(entities) :
                      entities[j].relationships = ExpectedRelationships(c, j)

\* relationship, then two entities of its source name: the first owns it
C8_Witness ==
    /\ pc = "validate_contexts"
    /\ \E i \in 1..Len(text.contexts) :
         LET its == text.contexts[i].items
             entities == model.bounded_contexts[i].entities
         IN  /\ Len(its) = 3
             /\ IsRelationshipItem(its[1])
             /\ IsEntityItem(its[2]) /\ its[2].name = its[1].name
             /\ IsEntityItem(its[3]) /\ its[3].name = its[1].name
             /\ entities[1].relationships = <<RelationshipOf(its[1])>>
             /\ entities[2].relationships = <<>>

(***************************************************************************)
(* C9  A relationship whose source names no entity of its own context is   *)
(* in no entity of the model, and the call succeeds or fails as if it      *)
(* were not there: transformation raises only for what an entity body      *)
(* holds, and validation reports only the declarations, the properties     *)
(* and the relationships that an entity holds.                             *)
(***************************************************************************)
HeldRelationships(c) == Flatten(SeqMap(LAMBDA e : e.relationships, c.entities))

\* text t without the relationship definitions whose source names no entity
\* of their own context
WithoutUnmatched(t) ==
    [t EXCEPT !.contexts =
        SeqMap(LAMBDA c :
                 [c EXCEPT !.items =
                     SeqFilter(LAMBDA it : IsRelationshipItem(it) => IsAttached(c, it),
                               c.items)],
               t.contexts)]

C9_UnmatchedSourceDropped ==
    /\ pc = "validate_contexts" =>
         \A i \in 1..Len(text.contexts) :
            /\ Len(HeldRelationships(model.bounded_contexts[i]))
                 = Count(LAMBDA it : IsAttached(text.contexts[i], it), text.contexts[i].items)
            /\ \A r \in Range(HeldRelationships(model.bounded_contexts[i])) :
                 r.source_entity \in EntityNames(text.contexts[i].items)
    /\ (pc = "raised" /\ result.type = "ValidationError") => HasApiParameters(text)
    /\ pc = "validated" =>
         Len(errors) = ExpectedFirstPass(text) + ExpectedSecondPass(text)
    /\ Completed => result = interpret(WithoutUnmatched(text))

\* the source names an entity of the other context only: the model is returned
C9_Witness ==
    /\ pc = "returned"
    /\ Len(text.contexts) = 2
    /\ \E it \in Range(text.contexts[1].items) :
         /\ IsRelationshipItem(it)
         /\ it.name \notin EntityNames(text.contexts[1].items)
         /\ it.name \in EntityNames(text.contexts[2].items)
    /\ \A i \in 1..2 : HeldRelationships(result.model.bounded_contexts[i]) = <<>>

(***************************************************************************)
(* C10  On one interpreter, a call on the text of the first completed      *)
(* call has the outcome of that first call, whatever calls came between,   *)
(* and the registry of a call holds the names of its own text only.        *)
(***************************************************************************)
C10_OutcomeDependsOnTextOnly ==
    /\ (Completed /\ first.text = text) => result = first.result
    /\ pc = "validate_entities" =>
         DOMAIN defined_names =
             {c.name : c \in Range(text.contexts)}
             \cup {it.name : it \in {x \in Range(TextItems(text)) : IsRegisteredItem(x)}}

\* a later call returned a model with an entity for the text of the first call
C10_Witness ==
    /\ pc = "returned"
    /\ later
    /\ first.text = text
    /\ result.model.bounded_contexts[1].entities # <<>>

(***************************************************************************)
(* C11  Two invocations of interpret on different texts, their steps       *)
(* interleaved in any order, each end with the outcome interpret has on    *)
(* that text alone, and while they run the errors and the registry of an   *)
(* invocation hold nothing but what its own text gives.                    *)
(***************************************************************************)
C11_InterleavingChangesNothing ==
    \A i \in Invocations :
        /\ calls[i].pc \in {"returned", "raised"} => calls[i].result = interpret(calls[i].text)
        /\ calls[i].pc \in {"register", "validated"} =>
             DOMAIN validations[i].defined_names \subseteq
                 {c.name : c \in Range(calls[i].text.contexts)}
                 \cup {it.name : it \in Range(TextItems(calls[i].text))}

\* both invocations returned a model, each took steps while the other was
\* inside its first pass, and both texts declare the same entity name
C11_Witness ==
    /\ \A i \in Invocations : calls[i].pc = "returned" /\ calls[i].interleaved
    /\ calls[1].text # calls[2].text
    /\ EntityNames(TextItems(calls[1].text)) \cap EntityNames(TextItems(calls[2].text)) # {}

(***************************************************************************)
(* C12  A source text with zero context definitions is interpreted to a    *)
(* DomainModel whose bounded-context sequence is empty; it is no error.    *)
(***************************************************************************)
C12_EmptyTextInterprets ==
    (Completed /\ text = SrcText(<<>>, TRUE)) =>
        /\ pc = "returned"
        /\ result = Returned(DomainModel(<<>>))

(***************************************************************************)
(* C13  Every type string the transformer stores (Property.type,           *)
(* Parameter.type, Method.return_type, ApiEndpoint.return_type) is the     *)
(* canonical rendering of the type expression it was written with:         *)
(* String, Custom<Inner>, List<T>, Dict<K:V>, nested.                      *)
(***************************************************************************)
RECURSIVE Canonical(_)
Canonical(ty) ==
    CASE ty.shape = "simple" -> ty.name
      [] ty.shape = "generic" -> ty.name \o "<" \o ty.inner \o ">"
      [] ty.shape = "list" -> "List<" \o Canonical(ty.of) \o ">"
      [] ty.shape = "dict" ->
           "Dict<" \o Canonical(ty.key) \o ":" \o Canonical(ty.value) \o ">"

C13_TypeStringsCanonical ==
    (fragment # NoValue /\ fragment.kind = "type" /\ produced # NoValue) =>
        CASE produced.by = "property_definition" ->
               produced.node.type = Canonical(fragment.type)
          [] produced.by = "method_definition" ->
               /\ produced.node.parameters[1].type = Canonical(fragment.type)
               /\ produced.node.return_type = Canonical(fragment.type)
          [] produced.by = "api_definition" ->
               produced.node.return_type = Canonical(fragment.type)

(***************************************************************************)
(* C14  For every combination of visibility prefix, parameter list, return *)
(* type and body description, method_definition yields a Method named by   *)
(* the identifier whose fields are the values of the clauses present and   *)
(* the defaults (public, no parameters, none, none) for the absent ones.   *)
(***************************************************************************)
ExpectedMethod(m) ==
    Method(m.name,
           IF m.visibility = None THEN "public" ELSE m.visibility,
           [i \in 1..Len(m.parameters) |->
               Parameter(m.parameters[i].name, Canonical(m.parameters[i].type), PyNone)],
           IF m.return_type = SrcNoType THEN None ELSE Canonical(m.return_type),
           m.body.description)

C14_MethodClausesKept ==
    (fragment # NoValue /\ fragment.kind = "method" /\ produced # NoValue) =>
        produced.node = ExpectedMethod(fragment)

\* doSomething(param: String): Void, and m(): Void with an empty parameter list
C14_Witness ==
    /\ fragment # NoValue /\ fragment.kind = "method" /\ produced # NoValue
    /\ fragment.name = "doSomething" /\ fragment.visibility = None
    /\ fragment.parameters = <<SrcParameter("param", SrcSimple("String"))>>
    /\ fragment.return_type = SrcSimple("Void")
    /\ produced.node.parameters = <<Parameter("param", "String", PyNone)>>
    /\ produced.node.return_type = "Void"
    /\ produced.node.visibility = "public"

(***************************************************************************)
(* C15  The default value stored on a Property or Parameter is the         *)
(* classified value of its literal: INT an integer, FLOAT a float, STRING  *)
(* the text without quotes, true/false (any case) a boolean, null (any     *)
(* case) null, another identifier its text, a list the list of its         *)
(* classified elements.                                                    *)
(***************************************************************************)
lower(t) ==
    CASE t = "False" -> "false"
      [] t = "NULL" -> "null"
      [] OTHER -> t

int(t) == CASE t = "42" -> 42

RECURSIVE Classified(_)
Classified(l) ==
    CASE l.lit = "INT" -> PyInt(int(l.text))
      [] l.lit = "FLOAT" -> PyFloat(l.text)
      [] l.lit = "STRING" -> PyStr(strip_ends(l.text))
      [] l.lit = "IDENTIFIER" ->
           IF lower(l.text) \in {"true", "false"} THEN PyBool(lower(l.text) = "true")
           ELSE IF lower(l.text) = "null" THEN PyNone
           ELSE PyStr(l.text)
      [] l.lit = "list" -> PyList([i \in 1..Len(l.items) |-> Classified(l.items[i])])

RECURSIVE SameValue(_, _)
\* two Python values of the same type and content
SameValue(a, b) ==
    /\ a.py = b.py
    /\ CASE a.py = "NoneType" -> TRUE
         [] a.py = "list" ->
              /\ Len(a.value) = Len(b.value)
              /\ \A i \in 1..Len(a.value) : SameValue(a.value[i], b.value[i])
         [] OTHER -> a.value = b.value

C15_DefaultsClassified ==
    (fragment # NoValue /\ fragment.kind = "default" /\ produced # NoValue) =>
        CASE produced.by = "property_definition" ->
               SameValue(produced.node.default_value, Classified(fragment.literal))
          [] produced.by = "method_definition" ->
               SameValue(produced.node.parameters[1].default_value,
                         Classified(fragment.literal))

(***************************************************************************)
(* C16  Every member declared inside a value object, event, role,          *)
(* repository or module is retained: k property definitions yield those k  *)
(* properties in declaration order, k method definitions yield k methods,  *)
(* and a module's nested definitions appear in its corresponding           *)
(* sequences.                                                              *)
(***************************************************************************)
\* the names of the members of kind k, in declaration order
MemberNames(ms, k) == SeqMap(LAMBDA m : m.name, SeqFilter(LAMBDA m : m.kind = k, ms))
NamesOf(nodes) == [i \in 1..Len(nodes) |-> nodes[i].name]

C16_MembersRetained ==
    (fragment # NoValue /\ fragment.kind \in {"value_object", "event", "role",
                                              "repository", "module"}
     /\ produced # NoValue) =>
        CASE fragment.kind \in {"value_object", "event", "role"} ->
               NamesOf(produced.node.properties) = MemberNames(fragment.members, "property")
          [] fragment.kind = "repository" ->
               NamesOf(produced.node.methods) = MemberNames(fragment.members, "method")
          [] fragment.kind = "module" ->
               /\ NamesOf(produced.node.entities) = MemberNames(fragment.members, "entity")
               /\ NamesOf(produced.node.value_objects)
                    = MemberNames(fragment.members, "value_object")
               /\ NamesOf(produced.node.events) = MemberNames(fragment.members, "event")
               /\ NamesOf(produced.node.services) = MemberNames(fragment.members, "service")
               /\ NamesOf(produced.node.repositories)
                    = MemberNames(fragment.members, "repository")

(***************************************************************************)
(* C17  The UiComponent built from a UI definition with nested UI          *)
(* definitions has, as its ordered children, the components of the nested  *)
(* definitions in declaration order, at every depth.                       *)
(***************************************************************************)
\* the child components a node holds, none when it has no such field
ChildrenOf(node) == IF "children" \in DOMAIN node THEN node.children ELSE <<>>

RECURSIVE MirrorsUi(_, _)
\* node is the component of u, and so are its children, all the way down
MirrorsUi(node, u) ==
    /\ node.component_type = u.name
    /\ Len(ChildrenOf(node)) = Len(u.components)
    /\ \A i \in 1..Len(u.components) : MirrorsUi(ChildrenOf(node)[i], u.components[i])

C17_NestedUiKept ==
    (fragment # NoValue /\ fragment.kind = "ui" /\ produced # NoValue) =>
        MirrorsUi(produced.node, fragment)

(***************************************************************************)
(* C18  A syntax error, a transformation error and a validation error are  *)
(* reported as three different error outcomes, by interpret and by         *)
(* parse_domain_model alike: a text that fails in one way ends in an error *)
(* whose class is not the class a text failing in another way ends in.     *)
(***************************************************************************)
FailureKinds == {"syntax", "transformation", "validation"}

\* how the pipeline fails on text t
FailureKind(t) ==
    IF ~t.closed \/ t.contexts = <<>> THEN "syntax"
    ELSE IF HasApiParameters(t) THEN "transformation"
    ELSE IF interpret(t).kind = "error" THEN "validation"
    ELSE "none"

\* a text failing in way k: an unclosed context; an entity with an api
\* definition that has parameters; two entities of one name
FailingText(k) ==
    CASE k = "syntax" -> SrcText(<<SrcContext("A", <<>>)>>, FALSE)
      [] k = "transformation" ->
           SrcText(<<SrcContext("A", <<SrcEntity("A", <<SrcApi("POST", TRUE)>>)>>)>>, TRUE)
      [] k = "validation" ->
           SrcText(<<SrcContext("A", <<SrcEntity("B", <<>>), SrcEntity("B", <<>>)>>)>>, TRUE)

OutcomeClass(o) == IF o.kind = "error" THEN o.type ELSE "returned"

SurfaceOutcome(by, t) ==
    IF by = "interpret" THEN interpret(t) ELSE parse_domain_model(t)

C18_FailureKindsDistinguishable ==
    (produced # NoValue /\ produced.by \in {"interpret", "parse_domain_model"}
     /\ FailureKind(fragment) # "none") =>
        /\ produced.node.kind = "error"
        /\ \A k \in FailureKinds \ {FailureKind(fragment)} :
              OutcomeClass(produced.node)
                # OutcomeClass(SurfaceOutcome(produced.by, FailingText(k)))

(***************************************************************************)
(* C19  After any sequence of register_plugin and uninstall calls,         *)
(* uninstall(name) returns True exactly when a plugin is registered under  *)
(* name, and then name is no longer registered, also when the plugin's     *)
(* cleanup raises; when it returns False the registry is unchanged; so     *)
(* uninstalling a name twice in a row returns True and then False.         *)
(***************************************************************************)
IsRegistration(c, n) ==
    /\ c.op = "register_plugin"
    /\ ~c.raised
    /\ c.argument.metadata.name = n
IsUninstall(c, n) == c.op = "uninstall" /\ c.argument = n

\* a plugin was registered under n by one of the first k calls and n was not
\* uninstalled since
RegisteredAfter(k, n) ==
    \E j \in 1..k :
        /\ IsRegistration(plugin_calls[j], n)
        /\ \A l \in (j + 1)..k : ~IsUninstall(plugin_calls[l], n)

C19_UninstallReportsRegistration ==
    \A i \in 1..Len(plugin_calls) :
        LET c == plugin_calls[i]
        IN  c.op = "uninstall" =>
              /\ ~c.raised
              /\ c.returned = RegisteredAfter(i - 1, c.argument)
              /\ c.argument \notin DOMAIN c.after
              /\ DOMAIN c.after = DOMAIN c.before \ {c.argument}
              /\ \A n \in DOMAIN c.after : c.after[n] = c.before[n]
              /\ ~c.returned => c.after = c.before
              /\ (i > 1 /\ IsUninstall(plugin_calls[i - 1], c.argument)) => ~c.returned
              /\ i = Len(plugin_calls) => plugins = c.after

\* a plugin whose cleanup raises is uninstalled twice in a row
C19_Witness ==
    \E i \in 1..Len(plugin_calls) :
        /\ i >= 3
        /\ IsRegistration(plugin_calls[i - 2], "mock-plugin")
        /\ plugin_calls[i - 2].argument.cleanup_raises
        /\ IsUninstall(plugin_calls[i - 1], "mock-plugin")
        /\ plugin_calls[i - 1].returned
        /\ IsUninstall(plugin_calls[i], "mock-plugin")
        /\ ~plugin_calls[i].returned

(***************************************************************************)
(* C20  A send_message request that carries the session_id of an existing  *)
(* chat session is handled in that session: no new session is created,    *)
(* the response carries the same session_id, and the conversation passed   *)
(* to the AI client is the system prompt, then the session's earlier       *)
(* messages, then the new user message.                                    *)
(***************************************************************************)
\* the request got past the checks of its content
Accepted(r) == r.response.status_code \notin {400, 422}

\* the messages exchanged in session sid by the first k requests, when each
\* was answered before the next arrived
RECURSIVE Exchanged(_, _)
Exchanged(k, sid) ==
    IF k = 0 THEN <<>>
    ELSE LET r == requests[k]
         IN  Exchanged(k - 1, sid)
             \o (IF Accepted(r) /\ r.session_id = sid
                 THEN <<ChatMessage("user", r.message.content)>>
                      \o (IF r.response.status_code = 200
                          THEN <<ChatMessage("assistant", r.response.messages[1])>>
                          ELSE <<>>)
                 ELSE <<>>)

CarriesExistingSession(r) ==
    r.message.session_id # None /\ r.message.session_id \in r.sessions_before

\* no request of session sid among the first k arrived while another request
\* of the session was waiting for the AI client
OneAtATime(k, sid) ==
    \A j \in 1..k : requests[j].session_id = sid => ~requests[j].overlapped

C20_HandledInExistingSession ==
    \A i \in 1..Len(requests) :
        LET r == requests[i]
        IN  (CarriesExistingSession(r) /\ Accepted(r)) =>
              /\ r.sessions_after = r.sessions_before
              /\ r.session_id = r.message.session_id
              /\ r.response.status_code = 200 => r.response.session_id = r.message.session_id
              /\ Head(r.conversation).role = "system"
              /\ Head(r.conversation).content
                   \in {_get_system_prompt_for_stage(st) : st \in Stages}
              /\ Tail(r.conversation)
                   = r.messages_before \o <<ChatMessage("user", r.message.content)>>
              /\ OneAtATime(i, r.message.session_id) =>
                   r.messages_before = Exchanged(i - 1, r.message.session_id)

\* a follow-up in the session the first request created
C20_Witness ==
    /\ Len(requests) >= 2
    /\ requests[1].message.session_id = None
    /\ requests[1].response.status_code = 200
    /\ requests[2].message.session_id = requests[1].response.session_id
    /\ requests[2].response.status_code = 200
    /\ requests[2].response.session_id = requests[1].response.session_id
    /\ Len(requests[2].conversation) = 4
    /\ Cardinality(DOMAIN active_sessions) = 1

(***************************************************************************)
(* C21  entity_definition sets the parent to the identifier of the         *)
(* inheritance clause when the clause is present and to none when it is    *)
(* absent, and in both cases every child of the body is in the sequence    *)
(* of its production (properties, methods, apis, uis), in order: the       *)
(* clause changes nothing but the parent, whether the body builds or one   *)
(* of its children raises.                                                 *)
(***************************************************************************)
\* what entity_definition gives for the same entity without the clause
WithoutInheritance(e) ==
    entity_definition(parse_item([e EXCEPT !.parent = None]).children)

C21_InheritanceKeepsChildren ==
    (produced # NoValue /\ produced.by = "entity_definition") =>
        LET node == produced.node
            plain == WithoutInheritance(fragment)
        IN  IF IsRaised(node)
            THEN node = plain
            ELSE /\ ~IsRaised(plain)
                 /\ node = [plain EXCEPT !.parent = fragment.parent]
                 /\ node.name = fragment.name
                 /\ node.parent = fragment.parent
                 /\ NamesOf(node.properties) = MemberNames(fragment.members, "property")
                 /\ NamesOf(node.methods) = MemberNames(fragment.members, "method")
                 /\ [i \in 1..Len(node.apis) |-> node.apis[i].http_method]
                      = MemberNames(fragment.members, "api")
                 /\ [i \in 1..Len(node.uis) |-> node.uis[i].component_type]
                      = MemberNames(fragment.members, "ui")

\* #A : B { p: String  m()  ui: Table } has been transformed
C21_Witness ==
    /\ produced # NoValue
    /\ produced.by = "entity_definition"
    /\ fragment.parent # None
    /\ ~IsRaised(produced.node)
    /\ produced.node.parent = fragment.parent
    /\ Len(produced.node.properties) = 1
    /\ Len(produced.node.methods) = 1
    /\ Len(produced.node.uis) = 1

(***************************************************************************)
(* C22  Transformation preserves declaration order and loses no            *)
(* definition: each sequence of a context (entities, value objects,        *)
(* events, services, repositories, modules, roles) lists its definitions   *)
(* in source order, every context child is in exactly one of them or is a  *)
(* relationship definition, each entity's properties, methods, apis and    *)
(* uis are in source order, and the relationships attached to an entity    *)
(* are in the source order of their definitions.                           *)
(***************************************************************************)
\* the member of kind k in a body, in source order
BodyNames(its, j, k) == MemberNames(SeqFilter(IsEntityItem, its)[j].members, k)

C22_DeclarationOrderKept ==
    (produced # NoValue /\ produced.by = "context_definition"
     /\ ~IsRaised(produced.node)) =>
        LET c == produced.node
            its == fragment.items
        IN  /\ NamesOf(c.entities) = MemberNames(its, "entity")
            /\ NamesOf(c.value_objects) = MemberNames(its, "value_object")
            /\ NamesOf(c.events) = MemberNames(its, "event")
            /\ NamesOf(c.services) = MemberNames(its, "service")
            /\ NamesOf(c.repositories) = MemberNames(its, "repository")
            /\ NamesOf(c.modules) = MemberNames(its, "module")
            /\ NamesOf(c.roles) = MemberNames(its, "role")
            /\ Len(c.entities) + Len(c.value_objects) + Len(c.events) + Len(c.services)
                 + Len(c.repositories) + Len(c.modules) + Len(c.roles)
                 + Count(IsRelationshipItem, its) = Len(its)
            /\ \A j \in 1..Len(c.entities) :
                 LET e == c.entities[j]
                 IN  /\ NamesOf(e.properties) = BodyNames(its, j, "property")
                     /\ NamesOf(e.methods) = BodyNames(its, j, "method")
                     /\ [i \in 1..Len(e.uis) |-> e.uis[i].component_type]
                          = BodyNames(its, j, "ui")
                     /\ [i \in 1..Len(e.apis) |-> e.apis[i].http_method]
                          = BodyNames(its, j, "api")
                     /\ e.relationships = ExpectedRelationships(fragment, j)
            /\ \A j \in 1..Len(c.services) :
                 LET members == SeqFilter(LAMBDA it : it.kind = "service", its)[j].members
                 IN  /\ NamesOf(c.services[j].methods) = MemberNames(members, "method")
                     /\ [i \in 1..Len(c.services[j].apis) |->
                            c.services[j].apis[i].http_method]
                          = MemberNames(members, "api")

\* an entity and two different relationships of its own have been transformed
C22_Witness ==
    /\ produced # NoValue
    /\ produced.by = "context_definition"
    /\ ~IsRaised(produced.node)
    /\ Len(produced.node.entities) = 1
    /\ Len(produced.node.entities[1].relationships) = 2
    /\ produced.node.entities[1].relationships[1]
         # produced.node.entities[1].relationships[2]

(***************************************************************************)
(* C23  When a parse-tree node carries a production tag the transformer    *)
(* does not expect at its position (an unknown child of a context, entity  *)
(* or service body, or an unexpected node where an optional clause was     *)
(* expected), the transformation fails: it never returns a model in which  *)
(* the node was skipped.                                                   *)
(***************************************************************************)
C23_UnexpectedNodeFails ==
    (produced # NoValue /\ produced.by \in Positions) => IsRaised(produced.node)

\* the model returned is the one of the same children without the node
UnexpectedNodeSkipped ==
    (produced # NoValue /\ produced.by \in Positions) =>
        LET rest == SeqFilter(LAMBDA x : x # fragment.node, fragment.children)
        IN  produced.node =
              CASE produced.by = "context_children" ->
                     context_definition(<<Token("X"), Tree("context_children", rest)>>)
                [] produced.by = "entity_children" ->
                     entity_definition(<<Token("A"), Tree("entity_children", rest)>>)
                [] produced.by = "service_children" ->
                     service_definition(<<Token("A"), Tree("service_children", rest)>>)
                [] produced.by = "property_clause" ->
                     property_definition(<<Token("p"), type_definition_tree("String")>>
                                         \o rest)

(***************************************************************************)
(* C24  Validation leaves the model unchanged: while _validate_model runs  *)
(* and after it has returned or raised, the model is the one the           *)
(* transformer returned, with every context, entity, property and          *)
(* relationship as before the call; its only effect is the raised error.   *)
(***************************************************************************)
InValidation == pc \in {"validate_contexts", "validate_entities", "validated"}

C24_ValidationLeavesModel ==
    (InValidation \/ Validated \/ ValidationFailed) => model = transform(tree)

\* validation has raised for a relationship that the model still holds
C24_Witness ==
    /\ ValidationFailed
    /\ \E i \in 1..Len(result.message) : IsUnknownTarget(result.message[i])
    /\ \E i \in 1..Len(model.bounded_contexts) :
         HeldRelationships(model.bounded_contexts[i]) # <<>>
    /\ model = transform(tree)

(***************************************************************************)
(* C25  The UI component tree has no cycles: in every reachable state,     *)
(* including after any sequence of add_child calls, no UI component is     *)
(* reachable from itself through children links.                           *)
(***************************************************************************)
\* the components reachable from c through one or more children links
Descendants(c) ==
    ReachableFrom(components, Range(components[c].children), Len(components))

C25_NoCycles == \A c \in DOMAIN components : c \notin Descendants(c)

\* a to_dict call ends in RecursionError exactly when a cycle lies at or
\* below its component; otherwise it ends in AttributeError exactly when a
\* component at or below it holds a rule stored as a dict
ToDictRaisesOnCycleOrDictRule ==
    \A k \in 1..Len(ui_calls) :
        ui_calls[k].op = "to_dict" =>
            LET below == {ui_calls[k].component} \cup Descendants(ui_calls[k].component)
                cyclic == \E d \in below : d \in Descendants(d)
                dicts == \E d \in below :
                           \E i \in 1..Len(components[d].navigation_rules) :
                             ~hasattr_event(components[d].navigation_rules[i])
                outcome == ui_calls[k].result
            IN  IF cyclic
                THEN IsRaised(outcome)
                     /\ (~dicts => outcome.type = "RecursionError")
                ELSE IF dicts
                THEN IsRaised(outcome) /\ outcome.type = "AttributeError"
                ELSE ~IsRaised(outcome)

\* to_dict has ended in RecursionError on a component that is its own child
ToDictOnSelfCycle ==
    \E k \in 1..Len(ui_calls) :
        /\ ui_calls[k].op = "to_dict"
        /\ ui_calls[k].component \in Range(components[ui_calls[k].component].children)
        /\ IsRaised(ui_calls[k].result)
        /\ ui_calls[k].result.type = "RecursionError"

\* to_dict has returned a dict with the rules added by add_navigation_rule
ToDictWithNavigation ==
    \E k \in 1..Len(ui_calls) :
        /\ ui_calls[k].op = "to_dict"
        /\ ~IsRaised(ui_calls[k].result)
        /\ "navigation" \in DOMAIN ui_calls[k].result
        /\ "children" \in DOMAIN ui_calls[k].result

(***************************************************************************)
(* C26  _process_nested_components(root) processes the navigation flow of  *)
(* every component of the tree rooted at root exactly once, for trees of   *)
(* any depth, and each child before its parent: the number of              *)
(* _process_navigation_flow calls is the number of components, the first   *)
(* call is for a descendant, the last for root.                            *)
(***************************************************************************)
\* the components handed to _process_navigation_flow by call k, in order
CallsOf(k) ==
    SeqMap(LAMBDA c : c.component, SeqFilter(LAMBDA c : c.call = k, nav_calls))

ProcessedOnceChildrenFirst(root, made) ==
    LET subtree == {root} \cup Descendants(root)
    IN  /\ Len(made) = Cardinality(subtree)
        /\ \A c \in subtree : Count(LAMBDA x : x = c, made) = 1
        /\ made[Len(made)] = root
        /\ Descendants(root) # {} => made[1] \in Descendants(root)
        /\ \A i \in 1..Len(made), j \in 1..Len(made) :
             made[i] \in Range(components[made[j]].children) => i < j

C26_EachComponentOnceChildrenFirst ==
    \A k \in 1..Len(ui_calls) :
        ui_calls[k].op = "_process_nested_components" =>
            ProcessedOnceChildrenFirst(ui_calls[k].component, CallsOf(k))

\* the claim holds for a root whose children have no children
HoldsForTwoLevels ==
    \A k \in 1..Len(ui_calls) :
        (/\ ui_calls[k].op = "_process_nested_components"
         /\ \A c \in Range(components[ui_calls[k].component].children) :
                components[c].children = <<>>) =>
            ProcessedOnceChildrenFirst(ui_calls[k].component, CallsOf(k))

(***************************************************************************)
(* C27  _process_navigation_flow sets a component's navigation_rules to    *)
(* one rule per entry of its navigation_flow, in the same order, each with *)
(* the entry's event, target and params (an empty mapping when the entry   *)
(* has none); a component with no or an empty navigation_flow is left      *)
(* unchanged; and a second application gives the navigation_rules of the   *)
(* first.                                                                  *)
(***************************************************************************)
RulesMirror(rules, entries) ==
    /\ Len(rules) = Len(entries)
    /\ \A i \in 1..Len(entries) :
         /\ rules[i].event = entries[i].event
         /\ rules[i].target = entries[i].target
         /\ rules[i].params = IF "params" \in DOMAIN entries[i]
                               THEN entries[i].params ELSE EmptyDict

C27_RulesFromFlow ==
    /\ \A k \in 1..Len(nav_calls) :
         LET flow == components[nav_calls[k].component].navigation_flow
         IN  IF flow.has /\ flow.entries # <<>>
             THEN RulesMirror(nav_calls[k].after, flow.entries)
             ELSE nav_calls[k].after = nav_calls[k].before
    /\ \A k \in 1..Len(nav_calls), l \in 1..Len(nav_calls) :
         (k < l /\ nav_calls[k].component = nav_calls[l].component) =>
             nav_calls[l].after = nav_calls[k].after

\* a component that had a rule of its own and a flow of two entries has
\* been processed twice
C27_Witness ==
    \E k \in 1..Len(nav_calls), l \in 1..Len(nav_calls) :
        /\ k < l
        /\ nav_calls[k].component = nav_calls[l].component
        /\ nav_calls[k].before # <<>>
        /\ components[nav_calls[k].component].navigation_flow.entries
             = <<ClickEntry, SubmitEntry>>
        /\ Len(nav_calls[l].after) = 2

(***************************************************************************)
(* C28  In every model produced by the transformer, each relationship in   *)
(* an entity's relationships sequence has that entity's name as its        *)
(* source_entity and was declared in that entity's own context: an entity  *)
(* never holds a relationship whose source is another entity.              *)
(***************************************************************************)
\* the relationships declared in context i of the text
DeclaredIn(i) ==
    {RelationshipOf(it) : it \in {x \in Range(text.contexts[i].items) :
                                    IsRelationshipItem(x)}}

C28_RelationshipsHeldBySource ==
    (pc \in {"validate_contexts", "validate_entities", "validated", "returned"}
     \/ ValidationFailed) =>
        \A i \in 1..Len(model.bounded_contexts) :
            \A j \in 1..Len(model.bounded_contexts[i].entities) :
                LET e == model.bounded_contexts[i].entities[j]
                IN  \A k \in 1..Len(e.relationships) :
                        /\ e.relationships[k].source_entity = e.name
                        /\ e.relationships[k] \in DeclaredIn(i)

\* two contexts each declare an entity of one name; the relationship of the
\* second context is held by the entity of the second context only
C28_Witness ==
    /\ pc = "validated"
    /\ Len(model.bounded_contexts) = 2
    /\ Len(model.bounded_contexts[1].entities) = 1
    /\ Len(model.bounded_contexts[2].entities) = 1
    /\ model.bounded_contexts[1].entities[1].name
         = model.bounded_contexts[2].entities[1].name
    /\ model.bounded_contexts[1].entities[1].relationships = <<>>
    /\ Len(model.bounded_contexts[2].entities[1].relationships) = 1

(***************************************************************************)
(* C29  A session's elicitation stage only advances along introduction ->  *)
(* entity_elicitation -> relationship_elicitation.  In every step, each    *)
(* session that exists stays in the registry, and its stage either stays   *)
(* as it is or moves to the next stage of the chain: one processed message *)
(* makes at most one transition, a message with both an entity keyword and *)
(* a relationship keyword moves an introduction session to                 *)
(* entity_elicitation only, no stage moves backward, and                   *)
(* relationship_elicitation is never left.                                 *)
(***************************************************************************)
NextStage ==
    {<<"introduction", "entity_elicitation">>,
     <<"entity_elicitation", "relationship_elicitation">>}

StageStep ==
    \A s \in DOMAIN active_sessions :
        /\ s \in DOMAIN active_sessions'
        /\ \/ active_sessions'[s].current_stage = active_sessions[s].current_stage
           \/ <<active_sessions[s].current_stage,
                active_sessions'[s].current_stage>> \in NextStage

C29_StageOnlyAdvances == [][StageStep]_vars

\* a session whose only message so far carried both keywords has been
\* processed and stands in entity_elicitation; another session has gone the
\* whole chain
C29_Witness ==
    /\ background_tasks = <<>>
    /\ \E s \in DOMAIN active_sessions :
         /\ Len(active_sessions[s].messages) = 2
         /\ active_sessions[s].messages[1].content = "connect the entities"
         /\ active_sessions[s].current_stage = "entity_elicitation"
    /\ \E s \in DOMAIN active_sessions :
         active_sessions[s].current_stage = "relationship_elicitation"


(***************************************************************************)
(* C30  A send_message request without a session_id that is accepted       *)
(* always creates a new session: the id it is handled under belongs to no  *)
(* session that was in active_sessions before the request, whatever ids    *)
(* the earlier requests supplied, and the registry afterwards holds the    *)
(* earlier sessions and this new one.                                      *)
(***************************************************************************)
WithoutSessionId(i) ==
    /\ requests[i].message.session_id = None
    /\ requests[i].session_id # None

C30_NoIdAlwaysNewSession ==
    \A i \in 1..Len(requests) :
        WithoutSessionId(i) =>
            /\ requests[i].session_id \notin requests[i].sessions_before
            /\ requests[i].sessions_after =
                   requests[i].sessions_before \cup {requests[i].session_id}

\* a request without a session_id handled under the id of a session that an
\* earlier request had opened with an id of its own
ContinuesSuppliedSession ==
    \E i \in 1..Len(requests) :
        /\ WithoutSessionId(i)
        /\ requests[i].session_id \in requests[i].sessions_before
        /\ \E j \in 1..(i - 1) :
             /\ requests[j].message.session_id = requests[i].session_id
             /\ requests[j].session_id = requests[i].session_id

================================================================================
